---------------------------- MODULE Spec2Model ----------------------------
(***************************************************************************)
(* Model of the progressive-filtering classification pipeline of           *)
(* src/src/taxonomy_navigator_engine.py (class TaxonomyNavigator).         *)
(*                                                                         *)
(* Text is modelled at character level: a Python str is a sequence of      *)
(* one-character strings, so that strip, split, lower, startswith,         *)
(* endswith, the "in" test and re.findall(r'\d+') are computed as the      *)
(* code computes them.  The completion gateway (self.client) is the        *)
(* environment: every call either raises, returns a response object        *)
(* without usable content, or returns a text from a small pool.            *)
(***************************************************************************)
EXTENDS Integers, Sequences, FiniteSets, TLC

VARIABLES
    lines,               \* f.readlines() of the taxonomy file (header first)
    all_paths,           \* self.all_paths
    leaf_markers,        \* self.leaf_markers
    pc,                  \* position of navigate_taxonomy
    product_info,        \* argument of navigate_taxonomy
    product_summary,     \* local product_summary
    selected_l1s,        \* local selected_l1s
    branch,              \* stage_name of the running _leaf_selection_helper
    filtered_leaves,     \* local filtered_leaves of the running helper
    batch_start,         \* loop variable batch_start of the running helper
    all_selected_numbers,\* local all_selected_numbers of the running helper
    selected_leaves_2a,  \* local selected_leaves_2a
    selected_leaves_2b,  \* local selected_leaves_2b
    all_selected_leaves, \* local all_selected_leaves
    best_match_idx,      \* local best_match_idx
    result,              \* the value navigate_taxonomy returned
    outcome,             \* which return statement produced it
    calls,               \* the completion calls issued by this request
    last                 \* what the gateway answered to the latest call

vars == << lines, all_paths, leaf_markers, pc, product_info, product_summary,
           selected_l1s, branch, filtered_leaves, batch_start,
           all_selected_numbers, selected_leaves_2a, selected_leaves_2b,
           all_selected_leaves, best_match_idx, result, outcome, calls, last >>

index_vars == << lines, all_paths, leaf_markers >>

-----------------------------------------------------------------------------
(* Bounds of the model *)

\* number of lines after the header in a taxonomy file
MaxLines == 3

\* batch_size of _leaf_selection_helper, scaled down from the code's 100
\* (taxonomy_navigator_engine.py line 631) so that a branch has several batches
BatchSize == 2

\* number of characters of a product description, and number of lines after
\* the header, where the summary stage is looked at with many descriptions
MaxProductLen == 3

MaxFrontLines == 1

\* number of characters of a response text handed to the number parser
MaxResponseLen == 2

\* number of candidates handed to Stage 3 when it is called on its own
MaxOptions == 3

\* the number of categories the Stage-2 prompt asks for per batch; the code
\* asks for "up to 15" of a batch of 100
SelectionsPerBatch == 1

-----------------------------------------------------------------------------
(* Python str operations on sequences of characters *)

WS == {" ", "\n", "\t"}

Upper == <<"A", "B", "F", "N", "O", "E", "T">>
Lowers == <<"a", "b", "f", "n", "o", "e", "t">>

DigitChars == <<"0", "1", "2", "3", "4", "5", "6", "7", "8", "9">>

IsDigit(c) == \E k \in 1..Len(DigitChars) : DigitChars[k] = c

DigitVal(c) == (CHOOSE k \in 1..Len(DigitChars) : DigitChars[k] = c) - 1

\* str.lower() on one character
LowerChar(c) ==
    IF \E k \in 1..Len(Upper) : Upper[k] = c
    THEN Lowers[CHOOSE k \in 1..Len(Upper) : Upper[k] = c]
    ELSE c

\* str.upper() on one character
UpperChar(c) ==
    IF \E k \in 1..Len(Lowers) : Lowers[k] = c
    THEN Upper[CHOOSE k \in 1..Len(Lowers) : Lowers[k] = c]
    ELSE c

\* s.lower()
Lower(s) == [i \in 1..Len(s) |-> LowerChar(s[i])]

\* s.upper()
ToUpper(s) == [i \in 1..Len(s) |-> UpperChar(s[i])]

\* s[:n]
Take(s, n) == SubSeq(s, 1, IF n < Len(s) THEN n ELSE Len(s))

\* s[n:]
Drop(s, n) == SubSeq(s, n + 1, Len(s))

\* s.startswith(p)
StartsWith(s, p) == Len(p) <= Len(s) /\ SubSeq(s, 1, Len(p)) = p

\* s.endswith(p)
EndsWith(s, p) == Len(p) <= Len(s) /\ SubSeq(s, Len(s) - Len(p) + 1, Len(s)) = p

\* sub occurs in s at offset i (0-based)
OccursAt(s, sub, i) == i + Len(sub) <= Len(s) /\ SubSeq(s, i + 1, i + Len(sub)) = sub

\* sub in s
Contains(s, sub) == \E i \in 0..Len(s) : OccursAt(s, sub, i)

\* s.find(sub) for a sub that occurs in s
Find(s, sub) ==
    CHOOSE i \in 0..Len(s) :
        OccursAt(s, sub, i) /\ \A j \in 0..(i - 1) : ~OccursAt(s, sub, j)

\* s.split(sep), sep non-empty
RECURSIVE Split(_, _)
Split(s, sep) ==
    IF ~Contains(s, sep) THEN << s >>
    ELSE LET i == Find(s, sep)
         IN  << SubSeq(s, 1, i) >> \o Split(Drop(s, i + Len(sep)), sep)

RECURSIVE LStrip(_)
LStrip(s) == IF s # << >> /\ Head(s) \in WS THEN LStrip(Tail(s)) ELSE s

RECURSIVE RStrip(_)
RStrip(s) ==
    IF s # << >> /\ s[Len(s)] \in WS THEN RStrip(SubSeq(s, 1, Len(s) - 1)) ELSE s

\* s.strip()
Strip(s) == RStrip(LStrip(s))

\* the leading run of digits of s
RECURSIVE DigitRun(_)
DigitRun(s) ==
    IF s # << >> /\ IsDigit(Head(s)) THEN << Head(s) >> \o DigitRun(Tail(s)) ELSE << >>

\* re.findall(r'\d+', s): the maximal runs of digits, left to right
RECURSIVE FindAllNumbers(_)
FindAllNumbers(s) ==
    IF s = << >> THEN << >>
    ELSE IF IsDigit(Head(s))
         THEN << DigitRun(s) >> \o FindAllNumbers(Drop(s, Len(DigitRun(s))))
         ELSE FindAllNumbers(Tail(s))

\* int(ds) for a string of digits
RECURSIVE ToInt(_)
ToInt(ds) ==
    IF ds = << >> THEN 0
    ELSE 10 * ToInt(SubSeq(ds, 1, Len(ds) - 1)) + DigitVal(ds[Len(ds)])

\* sep.join(parts)
RECURSIVE Join(_, _)
Join(parts, sep) ==
    IF parts = << >> THEN << >>
    ELSE IF Len(parts) = 1 THEN parts[1]
    ELSE parts[1] \o sep \o Join(Tail(parts), sep)

\* x in lst
InList(x, lst) == \E k \in 1..Len(lst) : lst[k] = x

\* all sequences over S of length at most n
SeqsUpTo(S, n) == UNION { [1..k -> S] : k \in 0..n }

-----------------------------------------------------------------------------
(* The taxonomy file and the index built from it *)

\* the hierarchy separator " > "
SEP == << " ", ">", " " >>

NameA == << "A" >>
NameLowA == << "a" >>
NameB == << "B" >>
NameBB == << "b", "B" >>
NameFalse == << "F", "a", "l", "s", "e" >>

\* the lines a taxonomy file of the model is made of, as readlines() yields them
BlankLine == << " ", "\n" >>
LineA == NameA \o << "\n" >>
LineAB == NameA \o SEP \o NameB \o << "\n" >>
LineABB == NameA \o SEP \o NameBB \o << "\n" >>
LineBA == NameB \o SEP \o NameA \o << "\n" >>
LineLowAB == NameLowA \o SEP \o NameB \o << "\n" >>
LineFalse == NameFalse \o << "\n" >>

LinePool == { BlankLine, LineA, LineAB, LineABB, LineBA, LineLowAB, LineFalse }

HeaderLine == << "#", "\n" >>

\* the taxonomy files of the model: a header and at most MaxLines lines, or
\* a file with no line at all
TaxonomyFiles ==
    { << HeaderLine >> \o body : body \in SeqsUpTo(LinePool, MaxLines) } \cup { << >> }

\* the taxonomy_file names no file: open() has nothing to read
MissingFile == << << "<no file>" >> >>

\* lines[1:]
Body(f) == IF f = << >> THEN << >> ELSE Tail(f)

\* IsLeafNode looking at the next line only
IsLeafNodeNextLineOnly(f, i) ==
    LET line == Strip(Body(f)[i])
    IN  ~ \E j \in { i + 1 } \cap (1..Len(Body(f))) :
            LET subsequent_line == Strip(Body(f)[j])
            IN  subsequent_line # << >> /\ StartsWith(subsequent_line, line \o SEP)

\* the leaf test of _build_taxonomy_tree for the line at position i of lines[1:]
\* (1-based here): no later line, stripped and non-empty, starts with this
\* line's stripped text plus " > "
IsLeafNode(f, i) ==
    LET line == Strip(Body(f)[i])
    IN  ~ \E j \in (i + 1)..Len(Body(f)) :
            LET subsequent_line == Strip(Body(f)[j])
            IN  subsequent_line # << >> /\ StartsWith(subsequent_line, line \o SEP)

\* the loop of _build_taxonomy_tree from position i on: one (path, is_leaf)
\* pair per non-empty stripped line
RECURSIVE BuildFrom(_, _)
BuildFrom(f, i) ==
    IF i > Len(Body(f)) THEN << >>
    ELSE IF Strip(Body(f)[i]) = << >> THEN BuildFrom(f, i + 1)
    ELSE << [path |-> Strip(Body(f)[i]), is_leaf |-> IsLeafNode(f, i)] >>
            \o BuildFrom(f, i + 1)

\* self.all_paths after _build_taxonomy_tree
BuildPaths(f) == [k \in 1..Len(BuildFrom(f, 1)) |-> BuildFrom(f, 1)[k].path]

\* self.leaf_markers after _build_taxonomy_tree
BuildLeafMarkers(f) == [k \in 1..Len(BuildFrom(f, 1)) |-> BuildFrom(f, 1)[k].is_leaf]

\* full_path.split(" > ")[0]
L1Of(path) == Split(path, SEP)[1]

\* full_path.split(" > ")[-1]
LeafOf(path) == Split(path, SEP)[Len(Split(path, SEP))]

-----------------------------------------------------------------------------
(* The completion gateway: self.client.chat.completions.create *)

\* the call raises (transport, authentication, rate limit)
Raise == [kind |-> "raise", content |-> << >>]

\* the call returns a response object whose choices[0].message.content
\* cannot be read as a string
Malformed == [kind |-> "malformed", content |-> << >>]

\* the call returns a response whose content is the text t
Answer(t) == [kind |-> "text", content |-> t]

\* what the gateway can do with a call whose answer texts are drawn from pool
Answers(pool) == { Raise, Malformed } \cup { Answer(t) : t \in pool }

\* no call has been answered yet
NoAnswer == [kind |-> "none", content |-> << >>]

SummaryTexts == { << " ", "S", "\n" >> }

Stage1Texts ==
    { << "A" >>,
      << "a" >>,
      << "f", "a", "l", "s", "e" >>,
      << "F", "a", "l" >>,
      << "A", "x" >>,
      << "x" >>,
      << "A", "\n", "a" >>,
      << "a", "\n", "\n", " ", "A", " " >>,
      << "A", "\n", "F", "a", "l", "s", "e" >>,
      << "F", "a", "l", "s", "e", "\n", "A", "\n", "A" >>,
      << "B", "\n", "F", "a", "l", "s", "e", "\n", "A" >> }

Stage2Texts ==
    { << "1" >>,
      << "2" >>,
      << "3" >>,
      << "0" >>,
      << "1", "2" >>,
      << "n", "o", "n", "e" >>,
      << "2", "\n", "1" >>,
      << "1", " ", "1" >> }

Stage3Texts ==
    { << "1" >>,
      << "2" >>,
      << "3" >>,
      << "0" >>,
      << "n", "o", "n", "e" >>,
      << " ", "N", "o", "n", "e", "\n" >>,
      << "e", "r", "r", "o", "r" >>,
      << "f", "a", "l", "s", "e" >>,
      << "N", "/", "A" >>,
      << "u", "n", "k", "n", "o", "w", "n" >>,
      << "x" >>,
      << >> }

-----------------------------------------------------------------------------
(* Product inputs *)

\* a product_info that is not a str (None)
NoneValue == << "<None>" >>

ProductText == << "P", "Q", "R" >>

ProductInputs == { ProductText, NoneValue }

\* the length the fallback of generate_product_summary truncates to, scaled
\* down from the code's 400 (taxonomy_navigator_engine.py line 286)
SummaryFallbackLen == 2

\* SummaryFallback truncating without the "..." mark
SummaryFallbackNoEllipsis(info) == Take(info, SummaryFallbackLen)

\* the except branch of generate_product_summary
SummaryFallback(info) ==
    IF Len(info) > SummaryFallbackLen
    THEN Take(info, SummaryFallbackLen) \o << ".", ".", "." >>
    ELSE info

\* generate_product_summary for a gateway answer a
GenerateProductSummary(info, a) ==
    IF a.kind = "text" THEN Strip(a.content) ELSE SummaryFallback(info)

-----------------------------------------------------------------------------
(* Stage 1: stage1_l1_selection and _validate_categories *)

\* L1From taking the first segment of every path, leaf-marked or not
RECURSIVE L1FromAllPaths(_, _, _, _)
L1FromAllPaths(paths, markers, i, acc) ==
    IF i > Len(paths) THEN acc
    ELSE IF ~InList(L1Of(paths[i]), acc)
         THEN L1FromAllPaths(paths, markers, i + 1, Append(acc, L1Of(paths[i])))
         ELSE L1FromAllPaths(paths, markers, i + 1, acc)

\* the list l1_categories built from an index: the distinct first segments
\* of the leaf-marked paths, in order of first appearance
RECURSIVE L1From(_, _, _, _)
L1From(paths, markers, i, acc) ==
    IF i > Len(paths) THEN acc
    ELSE IF markers[i] /\ ~InList(L1Of(paths[i]), acc)
         THEN L1From(paths, markers, i + 1, Append(acc, L1Of(paths[i])))
         ELSE L1From(paths, markers, i + 1, acc)

L1Categories(paths, markers) == L1From(paths, markers, 1, << >>)

\* [c.strip() for c in x if c.strip()]
RECURSIVE StripNonEmpty(_)
StripNonEmpty(parts) ==
    IF parts = << >> THEN << >>
    ELSE IF Strip(Head(parts)) = << >> THEN StripNonEmpty(Tail(parts))
    ELSE << Strip(Head(parts)) >> \o StripNonEmpty(Tail(parts))

\* selected_categories: the non-empty stripped lines of the stripped content
SelectedCategories(content) == StripNonEmpty(Split(Strip(content), << "\n" >>))

\* AcceptedL1 comparing without regard to letter case
AcceptedL1IgnoreCase(category, l1_categories) ==
    \E k \in 1..Len(l1_categories) : Lower(l1_categories[k]) = Lower(category)

\* validated_categories: a line is kept when "category in l1_categories"
AcceptedL1(category, l1_categories) == InList(category, l1_categories)

RECURSIVE ValidatedCategories(_, _)
ValidatedCategories(selected, l1_categories) ==
    IF selected = << >> THEN << >>
    ELSE IF AcceptedL1(Head(selected), l1_categories)
         THEN << Head(selected) >> \o ValidatedCategories(Tail(selected), l1_categories)
         ELSE ValidatedCategories(Tail(selected), l1_categories)

\* unique_categories: duplicates removed case-insensitively, first seen kept
RECURSIVE UniqueLower(_, _)
UniqueLower(cats, seen) ==
    IF cats = << >> THEN << >>
    ELSE IF Lower(Head(cats)) \in seen THEN UniqueLower(Tail(cats), seen)
    ELSE << Head(cats) >> \o UniqueLower(Tail(cats), seen \cup { Lower(Head(cats)) })

\* the first c of available with c.lower() == selected.lower(), as a list
ExactMatches(selected, available) ==
    SelectSeq(available, LAMBDA c : Lower(c) = Lower(selected))

\* the partial-match test of _validate_categories
PartialMatch(c, selected) ==
    Contains(Lower(selected), Lower(c)) \/ Contains(Lower(c), Lower(selected))

PartialMatches(selected, available) ==
    SelectSeq(available, LAMBDA c : PartialMatch(c, selected))

\* the category _validate_categories keeps for one selected name
MatchedCategory(selected, available) ==
    IF ExactMatches(selected, available) # << >> THEN ExactMatches(selected, available)[1]
    ELSE IF PartialMatches(selected, available) # << >>
         THEN PartialMatches(selected, available)[1]
         ELSE selected

\* _validate_categories
RECURSIVE ValidateFrom(_, _, _)
ValidateFrom(selected_categories, available, seen_valid) ==
    IF selected_categories = << >> THEN << >>
    ELSE LET m == MatchedCategory(Head(selected_categories), available)
         IN  IF Lower(m) \in seen_valid
             THEN ValidateFrom(Tail(selected_categories), available, seen_valid)
             ELSE << m >> \o ValidateFrom(Tail(selected_categories), available,
                                          seen_valid \cup { Lower(m) })

ValidateCategories(selected_categories, available) ==
    ValidateFrom(selected_categories, available, {})

\* Stage1FromContent without "unique_categories[:2]"
Stage1FromContentNoCap(content, l1_categories) ==
    ValidateCategories(
        UniqueLower(ValidatedCategories(SelectedCategories(content), l1_categories), {}),
        l1_categories)

\* the try branch of stage1_l1_selection for a response content
Stage1FromContent(content, l1_categories) ==
    ValidateCategories(
        Take(UniqueLower(ValidatedCategories(SelectedCategories(content), l1_categories), {}), 2),
        l1_categories)

\* Stage1Fallback returning nothing
Stage1FallbackNone(l1_categories) == << >>

\* the except branch of stage1_l1_selection
Stage1Fallback(l1_categories) == Take(l1_categories, 2)

\* stage1_l1_selection for a gateway answer a (the call is issued only when
\* l1_categories is not empty)
Stage1L1Selection(a, l1_categories) ==
    IF l1_categories = << >> THEN << >>
    ELSE IF a.kind = "text" THEN Stage1FromContent(a.content, l1_categories)
    ELSE Stage1Fallback(l1_categories)

-----------------------------------------------------------------------------
(* Stage 2: _leaf_selection_helper *)

\* filtered_leaves: the final segments of the leaf-marked paths whose first
\* segment is in l1s and whose final segment is not excluded, in file order
RECURSIVE FilteredFrom(_, _, _, _, _)
FilteredFrom(paths, markers, l1s, excluded, i) ==
    IF i > Len(paths) THEN << >>
    ELSE IF markers[i] /\ InList(L1Of(paths[i]), l1s) /\ ~InList(LeafOf(paths[i]), excluded)
         THEN << LeafOf(paths[i]) >> \o FilteredFrom(paths, markers, l1s, excluded, i + 1)
         ELSE FilteredFrom(paths, markers, l1s, excluded, i + 1)

\* FilteredLeaves without the leaf_markers test
FilteredLeavesAnyPath(paths, markers, l1s, excluded) ==
    FilteredFrom(paths, [i \in 1..Len(paths) |-> TRUE], l1s, excluded, 1)

FilteredLeaves(paths, markers, l1s, excluded) == FilteredFrom(paths, markers, l1s, excluded, 1)

\* BatchEnd taking one entry more, so that consecutive batches overlap
BatchEndOverlapping(filtered, start) ==
    IF start + BatchSize + 1 < Len(filtered) THEN start + BatchSize + 1 ELSE Len(filtered)

\* batch_end
BatchEnd(filtered, start) ==
    IF start + BatchSize < Len(filtered) THEN start + BatchSize ELSE Len(filtered)

\* batch_leaves = filtered_leaves[batch_start:batch_end]
BatchLeaves(filtered, start) == SubSeq(filtered, start + 1, BatchEnd(filtered, start))

\* the number of iterations of the batch loop
NumBatches(filtered) == (Len(filtered) + BatchSize - 1) \div BatchSize

\* the range test on a number of the response
NumberInRange(num, batch_leaves) == 1 <= num /\ num <= Len(batch_leaves)

\* LeafMapping numbering the whole candidate list instead of the batch
LeafMappingGlobal(filtered, start, num) == filtered[num]

\* leaf_mapping[num]
LeafMapping(filtered, start, num) == BatchLeaves(filtered, start)[num]

\* the leaves one line of the response selects
RECURSIVE LeavesOfNumbers(_, _, _)
LeavesOfNumbers(numbers, filtered, start) ==
    IF numbers = << >> THEN << >>
    ELSE LET num == ToInt(Head(numbers))
         IN  (IF NumberInRange(num, BatchLeaves(filtered, start))
              THEN << LeafMapping(filtered, start, num) >>
              ELSE << >>)
             \o LeavesOfNumbers(Tail(numbers), filtered, start)

\* the leaves the lines of the response select, line by line
RECURSIVE LeavesOfLines(_, _, _)
LeavesOfLines(ls, filtered, start) ==
    IF ls = << >> THEN << >>
    ELSE LeavesOfNumbers(FindAllNumbers(Strip(Head(ls))), filtered, start)
         \o LeavesOfLines(Tail(ls), filtered, start)

\* what one batch appends to all_selected_numbers for a response content
BatchSelections(content, filtered, start) ==
    IF ToUpper(Strip(content)) = << "N", "O", "N", "E" >> THEN << >>
    ELSE LeavesOfLines(Split(Strip(content), << "\n" >>), filtered, start)

\* BatchExcept losing what the earlier batches selected
BatchExceptAbort(accumulated) == << >>

\* the except branch of the batch loop: the batch is skipped, the loop goes on
\* with what it has accumulated
BatchExcept(accumulated) == accumulated

\* all_selected_numbers after the batch at start, for a gateway answer a
AfterBatch(accumulated, a, filtered, start) ==
    IF a.kind = "text" THEN accumulated \o BatchSelections(a.content, filtered, start)
    ELSE BatchExcept(accumulated)

\* unique_leaves: duplicates removed, first seen kept
RECURSIVE Unique(_, _)
Unique(leaves, seen) ==
    IF leaves = << >> THEN << >>
    ELSE IF Head(leaves) \in seen THEN Unique(Tail(leaves), seen)
    ELSE << Head(leaves) >> \o Unique(Tail(leaves), seen \cup { Head(leaves) })

-----------------------------------------------------------------------------
(* Stage 3: stage3_final_selection and _parse_and_validate_number *)

\* meaningless_responses left empty
MeaninglessResponsesNone == { }

MeaninglessResponses ==
    { << "n", "o", "n", "e" >>,
      << "n", "u", "l", "l" >>,
      << "e", "r", "r", "o", "r" >>,
      << "f", "a", "i", "l" >>,
      << "f", "a", "l", "s", "e" >>,
      << "n", "/", "a" >>,
      << "n", "a" >>,
      << "u", "n", "k", "n", "o", "w", "n" >> }

\* s is accepted by int(): an optional sign, then digits, single underscores
\* allowed between two digits
IsIntLiteral(s) ==
    LET body == IF s # << >> /\ Head(s) \in { "+", "-" } THEN Tail(s) ELSE s
    IN  /\ body # << >>
        /\ \A k \in 1..Len(body) :
               \/ IsDigit(body[k])
               \/ /\ body[k] = "_"
                  /\ 1 < k /\ k < Len(body)
                  /\ IsDigit(body[k - 1]) /\ IsDigit(body[k + 1])

\* int(s) for such an s
IntLiteral(s) ==
    IF Head(s) = "-" THEN 0 - ToInt(SelectSeq(Tail(s), IsDigit))
    ELSE ToInt(SelectSeq(s, IsDigit))

\* FirstNumberIndex returning the number itself, not converted to 0-based
FirstNumberIndexOneBased(cleaned_result, max_options) ==
    LET numbers == FindAllNumbers(cleaned_result)
    IN  IF numbers # << >> /\ 1 <= ToInt(numbers[1]) /\ ToInt(numbers[1]) <= max_options
        THEN ToInt(numbers[1])
        ELSE -2

\* FirstNumberIndex without the upper end of the range test
FirstNumberIndexNoUpper(cleaned_result, max_options) ==
    LET numbers == FindAllNumbers(cleaned_result)
    IN  IF numbers # << >> /\ 1 <= ToInt(numbers[1])
        THEN ToInt(numbers[1]) - 1
        ELSE -2

\* the index a number found in the response gives, -2 when the code goes on
\* to the next parsing attempt
FirstNumberIndex(cleaned_result, max_options) ==
    LET numbers == FindAllNumbers(cleaned_result)
    IN  IF numbers # << >> /\ 1 <= ToInt(numbers[1]) /\ ToInt(numbers[1]) <= max_options
        THEN ToInt(numbers[1]) - 1
        ELSE -2

DirectNumberIndex(cleaned_result, max_options) ==
    IF IsIntLiteral(cleaned_result)
       /\ 1 <= IntLiteral(cleaned_result) /\ IntLiteral(cleaned_result) <= max_options
    THEN IntLiteral(cleaned_result) - 1
    ELSE -2

\* ParseContent answering -1 to a number that is out of range
ParseContentStrict(content, max_options) ==
    LET cleaned_result == Lower(Strip(Strip(content)))
    IN  IF cleaned_result = << >> THEN -1
        ELSE IF FirstNumberIndex(cleaned_result, max_options) >= 0
             THEN FirstNumberIndex(cleaned_result, max_options)
        ELSE IF FindAllNumbers(cleaned_result) # << >> THEN -1
        ELSE IF cleaned_result \in MeaninglessResponses THEN -1
        ELSE 0

\* _parse_and_validate_number on a response with the text content
ParseContent(content, max_options) ==
    LET cleaned_result == Lower(Strip(Strip(content)))
    IN  IF cleaned_result = << >> THEN -1
        ELSE IF FirstNumberIndex(cleaned_result, max_options) >= 0
             THEN FirstNumberIndex(cleaned_result, max_options)
        ELSE IF DirectNumberIndex(cleaned_result, max_options) >= 0
             THEN DirectNumberIndex(cleaned_result, max_options)
        ELSE IF cleaned_result \in MeaninglessResponses THEN -1
        ELSE 0

\* _parse_and_validate_number: a response without readable content raises
\* inside its try and the except branch returns 0
ParseAndValidateNumber(a, max_options) ==
    IF a.kind = "text" THEN ParseContent(a.content, max_options) ELSE 0

\* Stage3AfterCall taking the first candidate when the call raises
Stage3AfterCallLenient(a, selected_leaves) ==
    IF a.kind = "raise" THEN 0
    ELSE ParseAndValidateNumber(a, Len(selected_leaves))

\* stage3_final_selection once the call is issued (two candidates or more):
\* a call that raises gives -1
Stage3AfterCall(a, selected_leaves) ==
    IF a.kind = "raise" THEN -1
    ELSE ParseAndValidateNumber(a, Len(selected_leaves))

-----------------------------------------------------------------------------
(* Resolution: the conversion of the selected leaf to its full path *)

\* PathMatches without the leaf_markers test: any path with that final segment
PathMatchesAnyPath(path, is_leaf, selected_leaf) ==
    /\ EndsWith(path, selected_leaf)
    /\ LeafOf(path) = selected_leaf

\* PathMatches without the exact comparison of the final segment
PathMatchesSuffix(path, is_leaf, selected_leaf) ==
    /\ is_leaf
    /\ EndsWith(path, selected_leaf)

\* the test that puts a path into full_paths
PathMatches(path, is_leaf, selected_leaf) ==
    /\ is_leaf
    /\ EndsWith(path, selected_leaf)
    /\ LeafOf(path) = selected_leaf

RECURSIVE FullPathsFrom(_, _, _, _)
FullPathsFrom(paths, markers, selected_leaf, i) ==
    IF i > Len(paths) THEN << >>
    ELSE IF PathMatches(paths[i], markers[i], selected_leaf)
         THEN << Split(paths[i], SEP) >> \o FullPathsFrom(paths, markers, selected_leaf, i + 1)
         ELSE FullPathsFrom(paths, markers, selected_leaf, i + 1)

\* full_paths
FullPaths(paths, markers, selected_leaf) == FullPathsFrom(paths, markers, selected_leaf, 1)

-----------------------------------------------------------------------------
(* navigate_taxonomy as a state machine *)

\* the failure sentinel [["False"]] with the index returned beside it
FailureResult == [paths |-> << << NameFalse >> >>, idx |-> 0]

\* navigate_taxonomy has not returned
NoResult == [paths |-> << >>, idx |-> -1]

\* the explicit "return [["False"]], 0" statements of navigate_taxonomy
ReturnFailure == [result |-> FailureResult, outcome |-> "failure"]

\* OuterExcept re-raising: the exception reaches the caller, nothing is returned
OuterExceptReraise == [result |-> NoResult, outcome |-> "escaped"]

\* the handler "except Exception" around the body of navigate_taxonomy
OuterExcept == [result |-> FailureResult, outcome |-> "exception"]

\* "return full_paths[:1], 0"
ReturnSuccess(full_paths) ==
    [result |-> [paths |-> Take(full_paths, 1), idx |-> 0], outcome |-> "success"]

\* one completion call: the stage that issues it, the number of the batch
\* (0 outside Stage 2), the product text put into the prompt, and whether the
\* stage's except branch handled it (the call raised or its response could
\* not be read)
Call(stage, batch, product, a) ==
    [stage |-> stage, batch |-> batch, product |-> product, failed |-> a.kind # "text"]

request_vars == << product_summary, selected_l1s, branch, filtered_leaves,
                   batch_start, all_selected_numbers, selected_leaves_2a,
                   selected_leaves_2b, all_selected_leaves, best_match_idx >>

\* ConstructionRaises also refusing a file without a path line
ConstructionRaisesOnEmpty(f) == f = MissingFile \/ BuildPaths(f) = << >>

\* lines 321-323 and 359-364: _build_taxonomy_tree raises, and with it the
\* constructor, when open() finds no file; nothing else is tested
ConstructionRaises(f) == f = MissingFile

Init ==
    /\ lines \in TaxonomyFiles \cup { MissingFile }
    /\ all_paths = IF ConstructionRaises(lines) THEN << >> ELSE BuildPaths(lines)
    /\ leaf_markers = IF ConstructionRaises(lines) THEN << >> ELSE BuildLeafMarkers(lines)
    /\ pc = IF ConstructionRaises(lines) THEN "no_navigator" ELSE "idle"
    /\ product_info = << >>
    /\ product_summary = << >>
    /\ selected_l1s = << >>
    /\ branch = "none"
    /\ filtered_leaves = << >>
    /\ batch_start = 0
    /\ all_selected_numbers = << >>
    /\ selected_leaves_2a = << >>
    /\ selected_leaves_2b = << >>
    /\ all_selected_leaves = << >>
    /\ best_match_idx = -1
    /\ result = NoResult
    /\ outcome = "none"
    /\ calls = << >>
    /\ last = NoAnswer

\* navigate_taxonomy returns ret
Finish(ret) ==
    /\ result' = ret.result
    /\ outcome' = ret.outcome
    /\ pc' = "done"

\* a caller invokes navigate_taxonomy(info); nothing of an earlier request
\* is kept but the index
Navigate ==
    /\ pc \in { "idle", "done" }
    /\ \E info \in ProductInputs : product_info' = info
    /\ pc' = "summary"
    /\ product_summary' = << >>
    /\ selected_l1s' = << >>
    /\ branch' = "none"
    /\ filtered_leaves' = << >>
    /\ batch_start' = 0
    /\ all_selected_numbers' = << >>
    /\ selected_leaves_2a' = << >>
    /\ selected_leaves_2b' = << >>
    /\ all_selected_leaves' = << >>
    /\ best_match_idx' = -1
    /\ result' = NoResult
    /\ outcome' = "none"
    /\ calls' = << >>
    /\ last' = NoAnswer
    /\ UNCHANGED index_vars

\* lines 827-835: the first log line slices product_info, which raises for
\* a product_info that is not a str; otherwise generate_product_summary
Summary ==
    /\ pc = "summary"
    /\ IF product_info = NoneValue
       THEN /\ Finish(OuterExcept)
            /\ UNCHANGED << product_summary, calls, last >>
       ELSE \E a \in Answers(SummaryTexts) :
            /\ product_summary' = GenerateProductSummary(product_info, a)
            /\ calls' = Append(calls, Call("summary", 0, product_info, a))
            /\ last' = a
            /\ pc' = "stage1"
            /\ UNCHANGED << result, outcome >>
    /\ UNCHANGED << index_vars, product_info, selected_l1s, branch, filtered_leaves,
                    batch_start, all_selected_numbers, selected_leaves_2a,
                    selected_leaves_2b, all_selected_leaves, best_match_idx >>

\* lines 843-849: stage1_l1_selection and the test of its result
Stage1 ==
    /\ pc = "stage1"
    /\ LET l1_categories == L1Categories(all_paths, leaf_markers)
       IN  IF l1_categories = << >>
           THEN /\ selected_l1s' = << >>
                /\ Finish(ReturnFailure)
                /\ UNCHANGED << calls, last, branch >>
           ELSE \E a \in Answers(Stage1Texts) :
                /\ calls' = Append(calls, Call("1", 0, product_summary, a))
                /\ last' = a
                /\ selected_l1s' = Stage1L1Selection(a, l1_categories)
                /\ IF selected_l1s' = << >>
                   THEN Finish(ReturnFailure) /\ UNCHANGED branch
                   ELSE pc' = "stage2_begin" /\ branch' = "2A" /\ UNCHANGED << result, outcome >>
    /\ UNCHANGED << index_vars, product_info, product_summary, filtered_leaves,
                    batch_start, all_selected_numbers, selected_leaves_2a,
                    selected_leaves_2b, all_selected_leaves, best_match_idx >>

\* the running helper returns unique_leaves to navigate_taxonomy
BranchReturn(unique_leaves) ==
    IF branch = "2A"
    THEN /\ selected_leaves_2a' = unique_leaves
         /\ branch' = "2B"
         /\ pc' = "stage2_begin"
         /\ UNCHANGED selected_leaves_2b
    ELSE /\ selected_leaves_2b' = unique_leaves
         /\ pc' = "merge"
         /\ UNCHANGED << selected_leaves_2a, branch >>

\* Stage 2B runs only with a second selected L1 (lines 863-872, 576-578)
BranchRuns == branch = "2A" \/ Len(selected_l1s) >= 2

\* the selected_l1s and excluded_leaves arguments of the helper (lines 558, 579)
BranchL1s == IF branch = "2A" THEN << selected_l1s[1] >> ELSE << selected_l1s[2] >>

\* BranchExcluded passing no exclusion to Stage 2B
BranchExcludedNone == << >>

BranchExcluded == IF branch = "2A" THEN << >> ELSE selected_leaves_2a

\* lines 856/867 and 611-632: entry of stage2a_first_leaf_selection or
\* stage2b_second_leaf_selection up to the batch loop
Stage2Begin ==
    /\ pc = "stage2_begin"
    /\ LET filtered == IF BranchRuns
                       THEN FilteredLeaves(all_paths, leaf_markers, BranchL1s, BranchExcluded)
                       ELSE << >>
       IN  /\ filtered_leaves' = filtered
           /\ batch_start' = 0
           /\ all_selected_numbers' = << >>
           /\ IF filtered = << >>
              THEN BranchReturn(<< >>)
              ELSE /\ pc' = "stage2_batch"
                   /\ UNCHANGED << branch, selected_leaves_2a, selected_leaves_2b >>
    /\ UNCHANGED << index_vars, product_info, product_summary, selected_l1s,
                    all_selected_leaves, best_match_idx, result, outcome, calls, last >>

\* NextBatchStart staying on a batch the gateway failed on: the batch is
\* issued again, without a limit
NextBatchStartRepeat(a, start) ==
    IF a.kind = "text" THEN start + BatchSize ELSE start


\* NextBatchStart leaving the loop at the first batch the gateway failed on
NextBatchStartBreak(a, start) ==
    IF a.kind = "text" THEN start + BatchSize ELSE start + BatchSize * (MaxLines + 1)

\* batch_start of the next iteration: the except branch ends in "continue",
\* so the loop goes on whatever the gateway answered
NextBatchStart(a, start) == start + BatchSize

\* lines 634-724: one iteration of the batch loop, and after the last one the
\* removal of duplicates and the return
Stage2Batch ==
    /\ pc = "stage2_batch"
    /\ \E a \in Answers(Stage2Texts) :
        /\ calls' = Append(calls, Call(branch, (batch_start \div BatchSize) + 1, product_summary, a))
        /\ last' = a
        /\ all_selected_numbers' = AfterBatch(all_selected_numbers, a, filtered_leaves, batch_start)
        /\ batch_start' = NextBatchStart(a, batch_start)
        /\ IF batch_start' >= Len(filtered_leaves)
           THEN BranchReturn(Unique(all_selected_numbers', {}))
           ELSE /\ pc' = "stage2_batch"
                /\ UNCHANGED << branch, selected_leaves_2a, selected_leaves_2b >>
    /\ UNCHANGED << index_vars, product_info, product_summary, selected_l1s,
                    filtered_leaves, all_selected_leaves, best_match_idx, result, outcome >>

\* Merge without the test "len(all_selected_leaves) == 1"
MergeNoSkip ==
    /\ pc = "merge"
    /\ all_selected_leaves' = selected_leaves_2a \o selected_leaves_2b
    /\ IF all_selected_leaves' = << >>
       THEN Finish(ReturnFailure) /\ UNCHANGED best_match_idx
       ELSE pc' = "stage3" /\ UNCHANGED << best_match_idx, result, outcome >>
    /\ UNCHANGED << index_vars, product_info, product_summary, selected_l1s, branch,
                    filtered_leaves, batch_start, all_selected_numbers,
                    selected_leaves_2a, selected_leaves_2b, calls, last >>

\* lines 874-889: the merge of both branches and the tests on its size
Merge ==
    /\ pc = "merge"
    /\ all_selected_leaves' = selected_leaves_2a \o selected_leaves_2b
    /\ IF all_selected_leaves' = << >>
       THEN Finish(ReturnFailure) /\ UNCHANGED best_match_idx
       ELSE IF Len(all_selected_leaves') = 1
            THEN pc' = "resolve" /\ best_match_idx' = 0 /\ UNCHANGED << result, outcome >>
            ELSE pc' = "stage3" /\ UNCHANGED << best_match_idx, result, outcome >>
    /\ UNCHANGED << index_vars, product_info, product_summary, selected_l1s, branch,
                    filtered_leaves, batch_start, all_selected_numbers,
                    selected_leaves_2a, selected_leaves_2b, calls, last >>

\* Stage3 handing the full description to stage3_final_selection
Stage3FullDescription ==
    /\ pc = "stage3"
    /\ \E a \in Answers(Stage3Texts) :
        /\ calls' = Append(calls, Call("3", 0, product_info, a))
        /\ last' = a
        /\ best_match_idx' = Stage3AfterCall(a, all_selected_leaves)
        /\ IF best_match_idx' < 0
           THEN Finish(ReturnFailure)
           ELSE pc' = "resolve" /\ UNCHANGED << result, outcome >>
    /\ UNCHANGED << index_vars, product_info, product_summary, selected_l1s, branch,
                    filtered_leaves, batch_start, all_selected_numbers,
                    selected_leaves_2a, selected_leaves_2b, all_selected_leaves >>

\* lines 890-901: stage3_final_selection with two candidates or more
Stage3 ==
    /\ pc = "stage3"
    /\ \E a \in Answers(Stage3Texts) :
        /\ calls' = Append(calls, Call("3", 0, product_summary, a))
        /\ last' = a
        /\ best_match_idx' = Stage3AfterCall(a, all_selected_leaves)
        /\ IF best_match_idx' < 0
           THEN Finish(ReturnFailure)
           ELSE pc' = "resolve" /\ UNCHANGED << result, outcome >>
    /\ UNCHANGED << index_vars, product_info, product_summary, selected_l1s, branch,
                    filtered_leaves, batch_start, all_selected_numbers,
                    selected_leaves_2a, selected_leaves_2b, all_selected_leaves >>

\* Resolve taking the returned path out of the index: its leaf marker is
\* cleared, so that a later request is no longer offered that leaf
ResolveConsumesPath ==
    /\ pc = "resolve"
    /\ LET selected_leaf == all_selected_leaves[best_match_idx + 1]
           full_paths == FullPaths(all_paths, leaf_markers, selected_leaf)
       IN  /\ IF full_paths = << >>
              THEN Finish(ReturnFailure)
              ELSE Finish(ReturnSuccess(full_paths))
           /\ leaf_markers' =
                  [i \in 1..Len(leaf_markers) |->
                      leaf_markers[i] /\ ~PathMatches(all_paths[i], leaf_markers[i], selected_leaf)]
    /\ UNCHANGED << lines, all_paths, product_info, request_vars, calls, last >>

\* lines 903-925: the selected leaf is converted to its full path
Resolve ==
    /\ pc = "resolve"
    /\ LET selected_leaf == all_selected_leaves[best_match_idx + 1]
           full_paths == FullPaths(all_paths, leaf_markers, selected_leaf)
       IN  IF full_paths = << >>
           THEN Finish(ReturnFailure)
           ELSE Finish(ReturnSuccess(full_paths))
    /\ UNCHANGED << index_vars, product_info, request_vars, calls, last >>

Next ==
    \/ Navigate
    \/ Summary
    \/ Stage1
    \/ Stage2Begin
    \/ Stage2Batch
    \/ Merge
    \/ Stage3
    \/ Resolve

Spec == Init /\ [][Next]_vars

-----------------------------------------------------------------------------
(* The summary stage and Stage 1 of navigate_taxonomy for descriptions of
   every length up to MaxProductLen *)

FrontProducts == SeqsUpTo({ "P", "Q" }, MaxProductLen) \cup { NoneValue }

FrontFiles == { << HeaderLine >> \o body : body \in SeqsUpTo(LinePool, MaxFrontLines) }

InitFront ==
    /\ lines \in FrontFiles
    /\ all_paths = BuildPaths(lines)
    /\ leaf_markers = BuildLeafMarkers(lines)
    /\ pc = "idle"
    /\ product_info = << >>
    /\ product_summary = << >>
    /\ selected_l1s = << >>
    /\ branch = "none"
    /\ filtered_leaves = << >>
    /\ batch_start = 0
    /\ all_selected_numbers = << >>
    /\ selected_leaves_2a = << >>
    /\ selected_leaves_2b = << >>
    /\ all_selected_leaves = << >>
    /\ best_match_idx = -1
    /\ result = NoResult
    /\ outcome = "none"
    /\ calls = << >>
    /\ last = NoAnswer

\* a caller invokes navigate_taxonomy(info) with a description of any length
NavigateFront ==
    /\ pc \in { "idle", "done" }
    /\ \E info \in FrontProducts : product_info' = info
    /\ pc' = "summary"
    /\ product_summary' = << >>
    /\ selected_l1s' = << >>
    /\ branch' = "none"
    /\ filtered_leaves' = << >>
    /\ batch_start' = 0
    /\ all_selected_numbers' = << >>
    /\ selected_leaves_2a' = << >>
    /\ selected_leaves_2b' = << >>
    /\ all_selected_leaves' = << >>
    /\ best_match_idx' = -1
    /\ result' = NoResult
    /\ outcome' = "none"
    /\ calls' = << >>
    /\ last' = NoAnswer
    /\ UNCHANGED index_vars

NextFront ==
    \/ NavigateFront
    \/ Summary
    \/ Stage1

FrontSpec == InitFront /\ [][NextFront]_vars

-----------------------------------------------------------------------------
(* stage3_final_selection and _parse_and_validate_number called on their own,
   as unit_tests.py calls them *)

\* the characters of the short response texts
ResponseChars == { "0", "1", "2", "3", "4", "_", "-", "+", "x", " ", "." }

\* response texts of the unit tests and of the docstrings, and the entries
\* of meaningless_responses
NamedResponses ==
    { << "O", "p", "t", "i", "o", "n", " ", "2" >>,
      << "T", "h", "e", " ", "a", "n", "s", "w", "e", "r", " ", "i", "s", " ", "2" >>,
      << "1", ".", "5" >>,
      << "9", "9", "9" >>,
      << "i", "n", "v", "a", "l", "i", "d" >>,
      << "n", "o", "n", "e" >>,
      << "n", "u", "l", "l" >>,
      << "e", "r", "r", "o", "r" >>,
      << "f", "a", "i", "l" >>,
      << "f", "a", "l", "s", "e" >>,
      << "n", "/", "a" >>,
      << "n", "a" >>,
      << "u", "n", "k", "n", "o", "w", "n" >>,
      << " ", "N", "O", "N", "E", "\n" >>,
      << "N", "/", "A" >>,
      << "0", "_", "2" >> }

ParseTexts == SeqsUpTo(ResponseChars, MaxResponseLen) \cup NamedResponses

\* the selected_leaves arguments: lists of 0 to MaxOptions candidate names
CandidateLists ==
    { Take(<< NameA, NameB, NameBB, NameFalse, NameLowA >>, n) : n \in 0..MaxOptions }

\* lines 748-756: stage3_final_selection returns without a call for an empty
\* list (-1) and for a single candidate (0)
Stage3Skips(selected_leaves) == Len(selected_leaves) <= 1

Stage3SkipValue(selected_leaves) == IF selected_leaves = << >> THEN -1 ELSE 0

InitUnit ==
    /\ lines = << HeaderLine >>
    /\ all_paths = BuildPaths(lines)
    /\ leaf_markers = BuildLeafMarkers(lines)
    /\ pc = "unit"
    /\ product_info = << >>
    /\ product_summary = ProductText
    /\ selected_l1s = << >>
    /\ branch = "none"
    /\ filtered_leaves = << >>
    /\ batch_start = 0
    /\ all_selected_numbers = << >>
    /\ selected_leaves_2a = << >>
    /\ selected_leaves_2b = << >>
    /\ all_selected_leaves \in CandidateLists
    /\ best_match_idx = -1
    /\ result = NoResult
    /\ outcome = "none"
    /\ calls = << >>
    /\ last = NoAnswer

\* _parse_and_validate_number(response, max_options) on a response object,
\* readable or not, with max_options = len(selected_leaves) >= 1
ParseNumber ==
    /\ pc = "unit"
    /\ Len(all_selected_leaves) >= 1
    /\ \E a \in Answers(ParseTexts) \ { Raise } :
        /\ last' = a
        /\ best_match_idx' = ParseAndValidateNumber(a, Len(all_selected_leaves))
    /\ pc' = "returned"
    /\ UNCHANGED << index_vars, product_info, product_summary, selected_l1s, branch,
                    filtered_leaves, batch_start, all_selected_numbers,
                    selected_leaves_2a, selected_leaves_2b, all_selected_leaves,
                    result, outcome, calls >>

\* stage3_final_selection(product_summary, selected_leaves)
FinalSelection ==
    /\ pc = "unit"
    /\ IF Stage3Skips(all_selected_leaves)
       THEN /\ best_match_idx' = Stage3SkipValue(all_selected_leaves)
            /\ UNCHANGED << calls, last >>
       ELSE \E a \in Answers(ParseTexts) :
            /\ calls' = Append(calls, Call("3", 0, product_summary, a))
            /\ last' = a
            /\ best_match_idx' = Stage3AfterCall(a, all_selected_leaves)
    /\ pc' = "returned"
    /\ UNCHANGED << index_vars, product_info, product_summary, selected_l1s, branch,
                    filtered_leaves, batch_start, all_selected_numbers,
                    selected_leaves_2a, selected_leaves_2b, all_selected_leaves,
                    result, outcome >>

NextUnit ==
    \/ ParseNumber
    \/ FinalSelection

UnitSpec == InitUnit /\ [][NextUnit]_vars

-----------------------------------------------------------------------------
(* Properties *)

\* the set of the elements of a list
Range(lst) == { lst[k] : k \in 1..Len(lst) }

\* the positions of the index marked as leaf
LeafPositions == { i \in 1..Len(all_paths) : leaf_markers[i] }

\* the text of a path ends in the segment name: it is that name, or it ends
\* with the separator followed by that name
FinalSegmentIs(path, name) == path = name \/ EndsWith(path, SEP \o name)

\* the request went through the conversion of the selected leaf (Resolve)
Resolved == pc = "done" /\ best_match_idx >= 0 /\ all_selected_leaves # << >>

\* the leaf name handed to the conversion
SelectedLeaf == all_selected_leaves[best_match_idx + 1]

\* what navigate_taxonomy has returned is the sentinel or one leaf path of
\* the index and of the file
ReturnsLeafPathOrSentinel ==
    pc = "done" =>
        \/ result = FailureResult
        \/ /\ Len(result.paths) = 1
           /\ result.idx = 0
           /\ \E i \in LeafPositions : result.paths[1] = Split(all_paths[i], SEP)
           /\ \E k \in 1..Len(Body(lines)) :
                  Strip(Body(lines)[k]) = Join(result.paths[1], SEP)

(* C1: navigate_taxonomy returns either the failure sentinel or exactly one
   path, and that path is the split of an entry of all_paths whose leaf
   marker is true; it never returns a category that is not in the taxonomy. *)
C1_ReturnsLeafPathOrSentinel == [] ReturnsLeafPathOrSentinel

\* a path of two segments or more is returned although the index holds a
\* path with the same final segment that is not a leaf
C1_Witness ==
    /\ pc = "done"
    /\ outcome = "success"
    /\ Len(result.paths[1]) >= 2
    /\ \E i \in 1..Len(all_paths) :
           ~leaf_markers[i] /\ FinalSegmentIs(all_paths[i], SelectedLeaf)

(* C2: the index builder marks a path as leaf if and only if no other path of
   the file, at any position, starts with that path's text followed by the
   separator; a path with a child anywhere in the file is never marked leaf. *)
C2_LeafIffNoChildAnywhere ==
    \A i \in 1..Len(all_paths) :
        leaf_markers[i] <=>
            ~ \E j \in 1..Len(all_paths) :
                  j # i /\ StartsWith(all_paths[j], all_paths[i] \o SEP)

(* C3: navigate_taxonomy never lets an exception escape: it always returns a
   value, and every hard failure (a product_info that cannot be processed,
   no L1 selected, no leaf selected, no final selection) is reported as the
   one failure result ([["False"]], 0). *)
C3_NoExceptionEscapes ==
    /\ outcome # "escaped"
    /\ pc = "done" =>
        /\ result # NoResult
        /\ outcome \in { "success", "failure", "exception" }
        /\ ( \/ product_info = NoneValue
             \/ selected_l1s = << >>
             \/ all_selected_leaves = << >>
             \/ best_match_idx < 0
             \/ outcome # "success" ) => result = FailureResult

\* the handler around the body of navigate_taxonomy caught an exception
C3_Witness ==
    /\ pc = "done"
    /\ outcome = "exception"
    /\ product_info = NoneValue
    /\ result = FailureResult

(* C4: a successful classification never returns a value equal to the
   failure sentinel, so a caller comparing the result against [["False"]]
   never takes a success for a failure. *)
C4_SuccessNeverEqualsSentinel ==
    (pc = "done" /\ outcome = "success") => result.paths # FailureResult.paths

\* the returned path ends in the selected name as a whole segment
ExactFinalSegment ==
    /\ Resolved =>
        /\ outcome = "success" =>
               FinalSegmentIs(Join(result.paths[1], SEP), SelectedLeaf)
        /\ (~ \E i \in LeafPositions : FinalSegmentIs(all_paths[i], SelectedLeaf))
               => result = FailureResult
    /\ pc = "idle" =>
        \A name \in { NameA, NameLowA, NameB, NameBB, NameFalse } :
            /\ \A k \in 1..Len(FullPaths(all_paths, leaf_markers, name)) :
                   FinalSegmentIs(Join(FullPaths(all_paths, leaf_markers, name)[k], SEP), name)
            /\ FullPaths(all_paths, leaf_markers, name) = << >>
                   <=> ~ \E i \in LeafPositions : FinalSegmentIs(all_paths[i], name)

(* C5: the conversion of the selected leaf name returns only a leaf path
   whose final segment is exactly that name, never one whose final segment
   merely ends with it; for every name, the conversion finds nothing exactly
   when no leaf path has that final segment, and a request that finds
   nothing resolves to Failure. *)
C5_ExactFinalSegment == [] ExactFinalSegment

\* a leaf is resolved while an earlier leaf path of the index ends with its
\* name without having it as final segment
C5_Witness ==
    /\ Resolved
    /\ outcome = "success"
    /\ \E i \in LeafPositions :
           /\ EndsWith(all_paths[i], SelectedLeaf)
           /\ ~FinalSegmentIs(all_paths[i], SelectedLeaf)
           /\ \A j \in 1..i : Split(all_paths[j], SEP) # result.paths[1]

\* the canonical L1 list of the index
L1s == L1Categories(all_paths, leaf_markers)

\* the Stage-1 call is the latest call: last is its answer and selected_l1s
\* the list stage1_l1_selection returned
JustAfterStage1 == Len(calls) = 2 /\ calls[2].stage = "1"

\* the lines of the Stage-1 response
ResponseLines == SelectedCategories(last.content)

\* the lines of the Stage-1 response that are exactly a canonical L1 name
MemberLines == SelectSeq(ResponseLines, LAMBDA c : InList(c, L1s))

(* C6: whenever the taxonomy has at least one L1 category, Stage 1 returns a
   non-empty list and never makes the pipeline fail, also when the gateway
   answers and no line of the answer is a valid category. *)
C6_Stage1NeverEmpty ==
    (JustAfterStage1 /\ L1s # << >>) => (selected_l1s # << >> /\ pc # "done")

\* what Stage 1 returns after a failed call and after an answered one
FallbackOnlyOnCallFailure ==
    JustAfterStage1 =>
        /\ last.kind # "text" =>
               /\ selected_l1s = Take(L1s, 2)
               /\ selected_l1s # << >>
               /\ pc # "done"
        /\ (last.kind = "text" /\ MemberLines = << >>) =>
               /\ selected_l1s = << >>
               /\ pc = "done"
               /\ result = FailureResult

(* C6, as the code has it: when the Stage-1 call fails (it raises or its response cannot
   be read) and the taxonomy has at least one L1 category, Stage 1 returns the
   first min(2, n) entries of the canonical L1 list and the pipeline goes on;
   when the gateway answers and no line of the answer is a canonical L1 name,
   there is no fallback: Stage 1 returns the empty list and the request
   resolves to Failure. *)
C6_FallbackOnlyOnCallFailure == [] FallbackOnlyOnCallFailure

\* the Stage-1 call raised and Stage 2A is about to start with two fallback L1s
C6_Witness ==
    /\ JustAfterStage1
    /\ last.kind = "raise"
    /\ Len(selected_l1s) = 2
    /\ pc = "stage2_begin"

(* C7: a name of the Stage-1 response that differs from a canonical L1 name
   only in letter case, or that contains or is contained in a canonical name,
   is accepted as that canonical name (stated for the first line of the
   response, which neither the removal of duplicates nor the cap can drop). *)
C7_CaseAndSubstringAccepted ==
    (JustAfterStage1 /\ last.kind = "text" /\ ResponseLines # << >>) =>
        LET c == ResponseLines[1]
        IN  (\E m \in Range(L1s) : Lower(m) = Lower(c) \/ PartialMatch(m, c)) =>
                /\ selected_l1s # << >>
                /\ Lower(selected_l1s[1]) = Lower(c) \/ PartialMatch(selected_l1s[1], c)

\* the list Stage 1 returns comes from the exact members of the response
ExactMembersOnly ==
    (JustAfterStage1 /\ last.kind = "text") =>
        /\ selected_l1s = << >> <=> MemberLines = << >>
        /\ \A k \in 1..Len(selected_l1s) :
               \E j \in 1..Len(MemberLines) : Lower(MemberLines[j]) = Lower(selected_l1s[k])
        /\ MemberLines # << >> => Lower(selected_l1s[1]) = Lower(MemberLines[1])

(* C7, as the code has it: Stage 1 keeps a line of the response only when it is exactly
   (case-sensitively) equal to a canonical L1 name; a name that differs only
   in letter case, or that contains or is contained in a canonical name, is
   dropped like any other non-member.  The case-insensitive rule is applied
   afterwards to the surviving names only, so every returned entry equals,
   ignoring case, a line that is exactly a canonical name. *)
C7_ExactMembersOnly == [] ExactMembersOnly

\* the response is a canonical name in another letter case and is dropped
C7_Witness ==
    /\ JustAfterStage1
    /\ last.kind = "text"
    /\ Len(ResponseLines) = 1
    /\ ~InList(ResponseLines[1], L1s)
    /\ \E m \in Range(L1s) : Lower(m) = Lower(ResponseLines[1])
    /\ selected_l1s = << >>

\* the position of the first line of the response that is a canonical name
\* and equals e ignoring case
FirstAppearance(e) ==
    CHOOSE i \in 1..Len(ResponseLines) :
        /\ InList(ResponseLines[i], L1s) /\ Lower(ResponseLines[i]) = Lower(e)
        /\ \A j \in 1..(i - 1) :
               ~(InList(ResponseLines[j], L1s) /\ Lower(ResponseLines[j]) = Lower(e))

\* the shape of the list Stage 1 returns for an answered call
Stage1ListShape ==
    (JustAfterStage1 /\ last.kind = "text") =>
        /\ Len(selected_l1s) <= 2
        /\ \A k, n \in 1..Len(selected_l1s) :
               k # n => Lower(selected_l1s[k]) # Lower(selected_l1s[n])
        /\ \A k \in 1..Len(selected_l1s) :
               /\ InList(selected_l1s[k], L1s)
               /\ \E i \in 1..Len(ResponseLines) :
                      InList(ResponseLines[i], L1s)
                      /\ Lower(ResponseLines[i]) = Lower(selected_l1s[k])
        /\ \A k, n \in 1..Len(selected_l1s) :
               k < n => FirstAppearance(selected_l1s[k]) < FirstAppearance(selected_l1s[n])

(* C8: for every model response, the list Stage 1 returns has at most 2
   entries, no two entries equal ignoring case, every entry a member of the
   canonical L1 list, in the order in which they first appeared in the
   response. *)
C8_Stage1ListShape == [] Stage1ListShape

\* the response names three canonical categories, different ignoring case,
\* and two are returned
C8_Witness ==
    /\ JustAfterStage1
    /\ last.kind = "text"
    /\ Len(MemberLines) >= 3
    /\ Cardinality({ Lower(MemberLines[k]) : k \in 1..Len(MemberLines) }) >= 3
    /\ Len(selected_l1s) = 2

\* the leaf names of the index under the L1 category l1, the names of
\* excluded left out
CandidateSet(l1, excluded) ==
    { LeafOf(all_paths[i]) : i \in { j \in LeafPositions : L1Of(all_paths[j]) = l1 } }
        \ Range(excluded)

\* the integer tokens of a response that lie in [1, n]
AcceptedTokens(content, n) ==
    SelectSeq(FindAllNumbers(content), LAMBDA t : 1 <= ToInt(t) /\ ToInt(t) <= n)

\* the number of entries of the batch of filtered_leaves starting at batch_start
BatchLength ==
    IF Len(filtered_leaves) - batch_start < BatchSize
    THEN Len(filtered_leaves) - batch_start ELSE BatchSize

\* what a batch is expected to add for a response: for each accepted token n,
\* in order, the candidate shown as number n in the batch
ExpectedOfBatch(content) ==
    LET ok == AcceptedTokens(content, BatchLength)
    IN  [k \in 1..Len(ok) |-> filtered_leaves[batch_start + ToInt(ok[k])]]

\* every leaf a branch returned is a member of the branch's CandidateSet
BranchResultsAreCandidates ==
    /\ selected_leaves_2a # << >> =>
           /\ Len(selected_l1s) >= 1
           /\ Range(selected_leaves_2a) \subseteq CandidateSet(selected_l1s[1], << >>)
    /\ selected_leaves_2b # << >> =>
           /\ Len(selected_l1s) >= 2
           /\ Range(selected_leaves_2b) \subseteq CandidateSet(selected_l1s[2], selected_leaves_2a)

\* a batch that was answered adds exactly the candidates of its accepted tokens
BatchMapsAcceptedTokens ==
    (pc = "stage2_batch" /\ calls' # calls /\ last'.kind = "text") =>
        all_selected_numbers' = all_selected_numbers \o ExpectedOfBatch(last'.content)

(* C9: in Stage 2, for every batch and every response text, each integer token
   outside [1, number of entries of that batch] is discarded and each accepted
   integer n is mapped to the candidate shown as number n in that same batch;
   so every leaf a Stage-2 branch returns is a member of the branch's
   CandidateSet, a leaf of the selected L1 that was not excluded. *)
C9_BatchLocalNumbers == [] BranchResultsAreCandidates /\ [][BatchMapsAcceptedTokens]_vars

\* the second batch of a branch was answered "2" then "1": 2 is out of range
\* there and dropped, 1 is the third candidate of the branch
C9_Witness ==
    /\ pc = "stage2_begin"
    /\ branch = "2B"
    /\ Len(filtered_leaves) = 3
    /\ last.kind = "text"
    /\ Len(FindAllNumbers(last.content)) = 2
    /\ Len(AcceptedTokens(last.content, 1)) = 1
    /\ all_selected_numbers # << >>
    /\ all_selected_numbers[Len(all_selected_numbers)] = filtered_leaves[3]
    /\ filtered_leaves[3] # filtered_leaves[1]

\* the number of calls the request made for a stage or branch
CallsOf(stage) == Cardinality({ k \in 1..Len(calls) : calls[k].stage = stage })

\* every call the request made for a branch failed
AllFailed(stage) == \A k \in 1..Len(calls) : calls[k].stage = stage => calls[k].failed

\* the number of leaf paths of the index under the L1 category l1
LeafCount(l1) == Cardinality({ i \in LeafPositions : L1Of(all_paths[i]) = l1 })

\* a branch that returned issued every batch and kept what the batches
\* accumulated; a first branch that failed as a whole is followed by every
\* batch of the second branch
BranchesComplete ==
    /\ (pc = "stage2_begin" /\ branch = "2B") =>
           /\ CallsOf("2A") = NumBatches(filtered_leaves)
           /\ Range(selected_leaves_2a) = Range(all_selected_numbers)
    /\ pc = "merge" =>
           /\ CallsOf("2B") = NumBatches(filtered_leaves)
           /\ Range(selected_leaves_2b) = Range(all_selected_numbers)
           /\ (CallsOf("2A") >= 1 /\ AllFailed("2A") /\ Len(selected_l1s) >= 2) =>
                  CallsOf("2B") = (LeafCount(selected_l1s[2]) + BatchSize - 1) \div BatchSize

\* a batch whose call failed leaves the accumulated selections as they are
\* and the loop goes on with the next batch, or the branch returns
FailedBatchIsSkipped ==
    (pc = "stage2_batch" /\ calls' # calls /\ last'.kind # "text") =>
        /\ all_selected_numbers' = all_selected_numbers
        /\ pc' # "done"
        /\ batch_start + BatchSize < Len(filtered_leaves) =>
               /\ pc' = "stage2_batch"
               /\ batch_start' = batch_start + BatchSize
               /\ branch' = branch

(* C10: a failed batch call in Stage 2 is skipped without aborting the branch:
   the selections accumulated from earlier batches are kept, all later batches
   of the branch are still issued, and a failure of the whole first branch
   does not prevent the second branch from running. *)
C10_FailedBatchSkipped == [] BranchesComplete /\ [][FailedBatchIsSkipped]_vars

\* the first batch of Stage 2A selected a leaf, the call of the second batch
\* failed, and the branch returned the selection of the first
C10_Witness ==
    /\ pc = "stage2_begin"
    /\ branch = "2B"
    /\ CallsOf("2A") = 2
    /\ ~calls[3].failed
    /\ calls[4].failed
    /\ selected_leaves_2a # << >>

\* no element of the list occurs twice
NoRepeat(lst) == \A k, n \in 1..Len(lst) : k # n => lst[k] # lst[n]

\* the position at which x occurs first in the list
FirstPosition(lst, x) ==
    CHOOSE i \in 1..Len(lst) : lst[i] = x /\ \A j \in 1..(i - 1) : lst[j] # x

\* u holds the elements of lst once each, in the order of their first occurrence
InFirstSeenOrder(u, lst) ==
    /\ NoRepeat(u)
    /\ Range(u) = Range(lst)
    /\ \A k, n \in 1..Len(u) : k < n => FirstPosition(lst, u[k]) < FirstPosition(lst, u[n])

(* C11: Stage 2B is run only when Stage 1 selected a second L1 (otherwise it
   issues no call), its CandidateSet excludes every leaf name already chosen
   in Stage 2A, and the merged list handed to Stage 3 is the 2A selections
   followed by the 2B selections, no leaf name occurring twice, each branch
   in the order in which its leaves were first selected. *)
C11_SecondBranchAndMerge ==
    /\ Len(selected_l1s) < 2 => CallsOf("2B") = 0
    /\ (pc = "stage2_batch" /\ branch = "2B") =>
           /\ Len(selected_l1s) >= 2
           /\ Range(filtered_leaves) = CandidateSet(selected_l1s[2], selected_leaves_2a)
           /\ Range(filtered_leaves) \cap Range(selected_leaves_2a) = {}
    /\ (pc = "stage2_begin" /\ branch = "2B") =>
           InFirstSeenOrder(selected_leaves_2a, all_selected_numbers)
    /\ pc = "merge" => InFirstSeenOrder(selected_leaves_2b, all_selected_numbers)
    /\ all_selected_leaves # << >> =>
           /\ all_selected_leaves = selected_leaves_2a \o selected_leaves_2b
           /\ NoRepeat(all_selected_leaves)

\* both branches selected a leaf and the second L1 has a leaf whose name
\* Stage 2A had already chosen
C11_Witness ==
    /\ pc = "stage3"
    /\ selected_leaves_2a # << >>
    /\ selected_leaves_2b # << >>
    /\ \E i \in LeafPositions :
           /\ L1Of(all_paths[i]) = selected_l1s[2]
           /\ LeafOf(all_paths[i]) \in Range(selected_leaves_2a)

(* C12: Stage 3 issues a completion call if and only if the merged Stage-2
   list has at least 2 entries: with no merged candidate (both branches
   returned nothing) the request resolves to Failure without a Stage-3 call,
   and with exactly one it resolves with index 0, that single candidate,
   without a Stage-3 call. *)
C12_Stage3OnlyForTwoOrMore ==
    /\ CallsOf("3") <= 1
    /\ CallsOf("3") = 1 => Len(all_selected_leaves) >= 2
    /\ (pc \in { "resolve", "done" } /\ Len(all_selected_leaves) >= 2) => CallsOf("3") = 1
    /\ (pc \in { "resolve", "done" } /\ Len(all_selected_leaves) = 1) =>
           /\ CallsOf("3") = 0
           /\ best_match_idx = 0
           /\ pc = "done" =>
                  /\ outcome = "success"
                  /\ result.idx = 0
                  /\ result.paths[1][Len(result.paths[1])] = all_selected_leaves[1]
    /\ (pc = "done" /\ selected_l1s # << >> /\ all_selected_leaves = << >>) =>
           /\ selected_leaves_2a = << >>
           /\ selected_leaves_2b = << >>
           /\ CallsOf("3") = 0
           /\ outcome = "failure"
           /\ result = FailureResult

\* one candidate came out of Stage 2 and the request ended with it, Stage 3
\* not called
C12_Witness ==
    /\ pc = "done"
    /\ Len(all_selected_leaves) = 1
    /\ outcome = "success"
    /\ CallsOf("3") = 0
    /\ CallsOf("2A") >= 1

\* the text holds a digit
HasInteger(text) == \E i \in 1..Len(text) : IsDigit(text[i])

\* the value of the first integer of the text: the longest run of digits
\* that starts at the first digit
FirstInteger(text) ==
    LET i == CHOOSE k \in 1..Len(text) :
                 IsDigit(text[k]) /\ \A m \in 1..(k - 1) : ~IsDigit(text[m])
        j == CHOOSE k \in i..Len(text) :
                 /\ \A m \in i..k : IsDigit(text[m])
                 /\ k = Len(text) \/ ~IsDigit(text[k + 1])
    IN  ToInt(SubSeq(text, i, j))

\* the number parser returned for a response that is a text
ParsedText == pc = "returned" /\ last.kind = "text" /\ all_selected_leaves # << >>

\* the count of candidates the parser was given
Count == Len(all_selected_leaves)

(* C13: Stage-3 response parsing takes the first integer found anywhere in
   the response text; when that integer n lies in [1, count] the result is
   the 0-based index n - 1 ("1" gives 0, "Option 2" gives 1, "The answer is
   2" gives 1, "1.5" gives 0), for every count >= 1. *)
C13_FirstIntegerSelects ==
    ParsedText =>
        /\ (HasInteger(last.content)
            /\ 1 <= FirstInteger(last.content) /\ FirstInteger(last.content) <= Count)
               => best_match_idx = FirstInteger(last.content) - 1
        /\ last.content = << "1" >> => best_match_idx = 0
        /\ last.content = << "1", ".", "5" >> => best_match_idx = 0
        /\ (Count >= 2 /\ last.content = << "O", "p", "t", "i", "o", "n", " ", "2" >>) => best_match_idx = 1
        /\ (Count >= 2 /\ last.content = << "T", "h", "e", " ", "a", "n", "s", "w", "e", "r", " ", "i", "s", " ", "2" >>)
               => best_match_idx = 1

\* "The answer is 2" was parsed for three candidates and gave index 1
C13_Witness ==
    /\ ParsedText
    /\ Count = 3
    /\ last.content = << "T", "h", "e", " ", "a", "n", "s", "w", "e", "r", " ", "i", "s", " ", "2" >>
    /\ best_match_idx = 1

\* the first integer of the response exists and is outside [1, count]
FirstIntegerOutOfRange ==
    /\ HasInteger(last.content)
    /\ FirstInteger(last.content) < 1 \/ FirstInteger(last.content) > Count

(* C14: in Stage-3 response parsing, a response whose number is out of range
   ("0", or a number greater than the candidate count) is treated as no valid
   selection: it is not clamped or turned into a valid index, so no candidate
   is selected on the strength of an out-of-range number. *)
C14_OutOfRangeIsNoSelection ==
    (ParsedText /\ FirstIntegerOutOfRange) => best_match_idx = -1

(* C14, as the code has it: a response whose first number is out of range is
   never answered with -1; parsing returns a valid index, which is 0 (the
   first candidate) unless the whole trimmed response is an integer literal
   whose value lies in [1, count], and then it is that value minus 1. *)
C14_OutOfRangeDefaultsToFirst ==
    (ParsedText /\ FirstIntegerOutOfRange) =>
        /\ 0 <= best_match_idx /\ best_match_idx < Count
        /\ \/ best_match_idx = 0
           \/ /\ IsIntLiteral(Lower(Strip(last.content)))
              /\ IntLiteral(Lower(Strip(last.content))) = best_match_idx + 1

\* "999" was parsed for three candidates and gave the first one
C14_Witness ==
    /\ ParsedText
    /\ Count = 3
    /\ last.content = << "9", "9", "9" >>
    /\ best_match_idx = 0

\* the non-answers the specification names
ExplicitNonAnswers ==
    { << "n", "o", "n", "e" >>,
      << "e", "r", "r", "o", "r" >>,
      << "f", "a", "l", "s", "e" >>,
      << "n", "/", "a" >>,
      << "u", "n", "k", "n", "o", "w", "n" >> }

\* the Stage-3 call of the request was answered with a text that is empty or
\* an explicit non-answer once trimmed and lower-cased
Stage3NonAnswer ==
    /\ CallsOf("3") = 1
    /\ last.kind = "text"
    /\ Lower(Strip(last.content)) \in ExplicitNonAnswers \cup { << >> }

(* C15: when the trimmed, lower-cased Stage-3 response is empty or one of the
   explicit non-answers ("none", "error", "false", "n/a", "unknown"), parsing
   returns -1 and the whole request resolves to the failure sentinel, not to
   a candidate. *)
C15_NonAnswerFails ==
    Stage3NonAnswer =>
        /\ best_match_idx = -1
        /\ pc = "done"
        /\ outcome = "failure"
        /\ result = FailureResult

\* Stage 3 was answered "N/A" and the request failed
C15_Witness ==
    /\ Stage3NonAnswer
    /\ last.content = << "N", "/", "A" >>
    /\ pc = "done"
    /\ result = FailureResult

(* C16: for every response (valid number, out-of-range number, negative
   number, text without a number, empty text, response object that cannot be
   read) and every candidate count >= 1, the Stage-3 result is -1 or an index
   i with 0 <= i < count, so the index used to read the merged candidate list
   is in bounds. *)
C16_IndexInBounds ==
    pc = "returned" =>
        \/ best_match_idx = -1
        \/ /\ 0 <= best_match_idx /\ best_match_idx < Count
           /\ best_match_idx + 1 \in DOMAIN all_selected_leaves

\* a number above the count was parsed and the index is in bounds
C16_Witness ==
    /\ pc = "returned"
    /\ last.kind = "text"
    /\ HasInteger(last.content)
    /\ FirstInteger(last.content) > Count
    /\ best_match_idx = 0

\* the Stage-3 call of the request was answered with an empty text or with
\* an entry of the code's list of meaningless responses
Stage3Meaningless ==
    /\ last.kind = "text"
    /\ Lower(Strip(last.content)) \in
           ExplicitNonAnswers
           \cup { << >>, << "n", "u", "l", "l" >>, << "f", "a", "i", "l" >>, << "n", "a" >> }

(* C17: Stage 3 makes the request fail only when the response is an explicit
   non-answer (or an empty candidate set reaches it); in every other
   situation in which Stage 3 runs with at least 2 candidates, a transport
   failure of its completion call included, the request does not resolve to
   Failure because of Stage 3. *)
C17_Stage3FailsOnlyOnNonAnswer ==
    (CallsOf("3") = 1 /\ ~Stage3Meaningless) =>
        /\ best_match_idx >= 0
        /\ pc = "done" => outcome = "success"

(* C17, as the code has it: when Stage 3 runs with at least 2 candidates it
   makes the request fail exactly when its completion call raises or the
   response is empty or an explicit non-answer; in every other situation (a
   response object that cannot be read, a text without a number, a number out
   of range) it returns a valid index and the request goes on to the
   conversion of that candidate and succeeds. *)
C17_Stage3FailsOnNonAnswerOrRaise ==
    CallsOf("3") = 1 =>
        /\ Len(all_selected_leaves) >= 2
        /\ best_match_idx < 0 <=> (last.kind = "raise" \/ Stage3Meaningless)
        /\ best_match_idx < 0 =>
               pc = "done" /\ outcome = "failure" /\ result = FailureResult
        /\ best_match_idx >= 0 =>
               /\ best_match_idx < Len(all_selected_leaves)
               /\ pc \in { "resolve", "done" }
               /\ pc = "done" => outcome = "success"

\* the Stage-3 call raised and the request failed
C17_Witness ==
    /\ CallsOf("3") = 1
    /\ last.kind = "raise"
    /\ best_match_idx = -1
    /\ pc = "done"
    /\ result = FailureResult

\* the summary call of the request failed
SummaryFailed == Len(calls) >= 1 /\ calls[1].stage = "summary" /\ calls[1].failed

\* the description cut to SummaryFallbackLen characters and marked with "..."
Truncated(info) == [i \in 1..SummaryFallbackLen |-> info[i]] \o << ".", ".", "." >>

(* C18: when the summary completion call fails, generate_product_summary
   returns a local truncation of the raw description (the whole text when it
   has at most SummaryFallbackLen characters, 400 in the code, otherwise its
   first SummaryFallbackLen characters followed by "...") and the pipeline
   goes on into Stage 1 with that text; a summary failure alone never makes
   the request resolve to Failure. *)
C18_SummaryFallback ==
    SummaryFailed =>
        /\ Len(product_info) <= SummaryFallbackLen => product_summary = product_info
        /\ Len(product_info) > SummaryFallbackLen => product_summary = Truncated(product_info)
        /\ Len(calls) = 1 => (pc = "stage1" \/ (pc = "done" /\ L1s = << >>))
        /\ (Len(calls) = 1 /\ pc = "done") => outcome = "failure"
        /\ Len(calls) >= 2 =>
               /\ calls[2].stage = "1"
               /\ calls[2].product = product_summary

\* the summary call raised for a description longer than the limit and
\* Stage 1 was called with the truncated text
C18_Witness ==
    /\ SummaryFailed
    /\ Len(product_info) > SummaryFallbackLen
    /\ Len(calls) = 2
    /\ calls[2].stage = "1"
    /\ calls[2].product = Truncated(product_info)
    /\ Len(calls[2].product) = SummaryFallbackLen + 3

\* the file has no path line after the header: it is empty, or every line
\* after the first is blank
NoPathLine(f) == \A k \in 2..Len(f) : Strip(f[k]) = << >>

(* C19: building the taxonomy index fails with an error both when the
   taxonomy file is missing and when the file has no path line after the
   header line (only a header, only blank lines after it, or an empty file);
   an index with zero paths is never constructed. *)
C19_EmptyIndexNeverBuilt ==
    /\ lines = MissingFile => pc = "no_navigator"
    /\ pc # "no_navigator" => all_paths # << >>

(* C19, as the code has it: building the index fails with an error when the
   taxonomy file is missing, and only then; a file without a path line after
   the header (only a header, only blank lines after it, or an empty file)
   is built into an index with zero paths, and every request made on it
   resolves to Failure, after the summary call and without a Stage-1 call. *)
C19_OnlyMissingFileFails ==
    /\ pc = "no_navigator" <=> lines = MissingFile
    /\ lines # MissingFile =>
           /\ all_paths = << >> <=> NoPathLine(lines)
           /\ Len(leaf_markers) = Len(all_paths)
           /\ (all_paths = << >> /\ pc = "done") =>
                  /\ result = FailureResult
                  /\ Len(calls) <= 1
                  /\ product_info # NoneValue => (Len(calls) = 1 /\ outcome = "failure")

\* a file of a header and blank lines was built and a request on it failed
\* after the summary call
C19_Witness ==
    /\ Len(lines) >= 2
    /\ lines # MissingFile
    /\ NoPathLine(lines)
    /\ pc = "done"
    /\ Len(calls) = 1
    /\ result = FailureResult

\* the L1 category and the excluded names of the branch whose candidates
\* filtered_leaves holds while its batches run
RunningL1 == IF branch = "2A" THEN selected_l1s[1] ELSE selected_l1s[2]

RunningExcluded == IF branch = "2A" THEN << >> ELSE selected_leaves_2a

\* the positions of the index the running branch takes its candidates from
CandidatePositions ==
    { i \in LeafPositions :
        L1Of(all_paths[i]) = RunningL1 /\ LeafOf(all_paths[i]) \notin Range(RunningExcluded) }

\* the k-th position of CandidatePositions in the order of the index
KthCandidatePosition(k) ==
    CHOOSE i \in CandidatePositions : Cardinality({ j \in CandidatePositions : j <= i }) = k

(* C20: every CandidateSet built for a Stage-2 branch contains no duplicate
   leaf names, for every taxonomy (one with a repeated path line, or with two
   leaf paths under the same L1 ending in the same final segment, included),
   so no leaf name is presented under two different numbers. *)
C20_NoDuplicateCandidates ==
    pc = "stage2_batch" => NoRepeat(filtered_leaves)

\* the candidate list has one entry per leaf path of the branch
OneCandidatePerLeafPath ==
    /\ pc = "stage2_batch" =>
           /\ Len(filtered_leaves) = Cardinality(CandidatePositions)
           /\ \A k \in 1..Len(filtered_leaves) :
                  filtered_leaves[k] = LeafOf(all_paths[KthCandidatePosition(k)])
           /\ NoRepeat(filtered_leaves) <=>
                  \A i, j \in CandidatePositions :
                      i # j => LeafOf(all_paths[i]) # LeafOf(all_paths[j])
    /\ NoRepeat(selected_leaves_2a)
    /\ NoRepeat(selected_leaves_2b)

(* C20, as the code has it: the CandidateSet of a Stage-2 branch holds one
   entry per leaf path of the selected L1 whose final segment is not
   excluded, in the order of the file; it is free of duplicates exactly when
   those paths have different final segments, and a name that ends several of
   them is presented under as many numbers.  The list a branch returns holds
   no name twice. *)
C20_OneCandidatePerLeafPath == [] OneCandidatePerLeafPath

\* a branch whose candidates held a name twice was answered with both
\* numbers and returned the name once
C20_Witness ==
    /\ pc = "stage2_begin"
    /\ branch = "2B"
    /\ ~NoRepeat(filtered_leaves)
    /\ Len(all_selected_numbers) = 2
    /\ all_selected_numbers[1] = all_selected_numbers[2]
    /\ Len(selected_leaves_2a) = 1

-----------------------------------------------------------------------------
(* The index and the requests *)

\* the state of a request that has issued no call and computed nothing
FreshRequest ==
    /\ product_summary = << >>
    /\ selected_l1s = << >>
    /\ branch = "none"
    /\ filtered_leaves = << >>
    /\ batch_start = 0
    /\ all_selected_numbers = << >>
    /\ selected_leaves_2a = << >>
    /\ selected_leaves_2b = << >>
    /\ all_selected_leaves = << >>
    /\ best_match_idx = -1
    /\ result = NoResult
    /\ outcome = "none"
    /\ calls = << >>
    /\ last = NoAnswer

\* the index is the one the constructor built from the file
IndexAsBuilt ==
    /\ all_paths = BuildPaths(lines)
    /\ leaf_markers = BuildLeafMarkers(lines)

(* C21: after construction the taxonomy index (all_paths, leaf_markers) is
   never modified: no step of any request, successful or failed, changes
   it, and a request that follows a finished one starts from nothing of the
   earlier request but the index. *)
C21_IndexNeverModified ==
    [][ /\ all_paths' = all_paths
        /\ leaf_markers' = leaf_markers
        /\ lines' = lines
        /\ pc = "done" => FreshRequest' ]_vars

\* a request has succeeded on an index of two paths, which is still the
\* index the constructor built; the next request starts from this state
C21_Witness ==
    /\ pc = "done"
    /\ outcome = "success"
    /\ Len(all_paths) >= 2
    /\ IndexAsBuilt

-----------------------------------------------------------------------------
(* The batches of a Stage-2 branch *)

\* the values batch_start takes in the loop over range(0, len, batch_size)
BatchStarts(filtered) == { (k - 1) * BatchSize : k \in 1..NumBatches(filtered) }

\* the places of a candidate list: a batch and a number inside it
BatchPlaces(filtered) ==
    { << s, n >> \in BatchStarts(filtered) \X (1..BatchSize) :
        n <= Len(BatchLeaves(filtered, s)) }

\* the batches of the list one after the other, from the batch at start on
RECURSIVE BatchesFrom(_, _)
BatchesFrom(filtered, start) ==
    IF start >= Len(filtered) THEN << >>
    ELSE BatchLeaves(filtered, start) \o BatchesFrom(filtered, start + BatchSize)

\* the calls one branch has issued, in the order of their issue
BranchCalls(stage) == SelectSeq(calls, LAMBDA c : c.stage = stage)

\* the batch loop is at one of its batch starts, and the batches before it
\* were presented in ascending order, each once
BatchesInOrder ==
    /\ batch_start \in BatchStarts(filtered_leaves)
    /\ Len(BranchCalls(branch)) = batch_start \div BatchSize
    /\ \A k \in 1..Len(BranchCalls(branch)) : BranchCalls(branch)[k].batch = k

(* C22: Stage-2 batch splitting is a partition of the CandidateSet: every
   candidate (leaf name) appears in exactly one batch under exactly one
   batch-local number, batches and the entries inside them keep the input
   order, each batch has at most BatchSize entries, and the reassembled
   branch result contains each selected leaf once, in first-seen order. *)
C22_BatchesPartitionCandidates ==
    /\ pc = "stage2_batch" =>
           /\ BatchesInOrder
           /\ BatchesFrom(filtered_leaves, 0) = filtered_leaves
           /\ \A s \in BatchStarts(filtered_leaves) :
                  Len(BatchLeaves(filtered_leaves, s)) \in 1..BatchSize
           /\ \A x \in Range(filtered_leaves) :
                  Cardinality({ p \in BatchPlaces(filtered_leaves) :
                                  BatchLeaves(filtered_leaves, p[1])[p[2]] = x }) = 1
    /\ (pc = "stage2_begin" /\ branch = "2B") =>
           InFirstSeenOrder(selected_leaves_2a, all_selected_numbers)
    /\ pc = "merge" => InFirstSeenOrder(selected_leaves_2b, all_selected_numbers)

\* the positions of the candidate list are split into batches one after
\* the other, and the branch results hold each selected leaf once
PositionsPartitioned ==
    /\ pc = "stage2_batch" =>
           /\ BatchesInOrder
           /\ BatchesFrom(filtered_leaves, 0) = filtered_leaves
           /\ \A s \in BatchStarts(filtered_leaves) :
                  Len(BatchLeaves(filtered_leaves, s)) \in 1..BatchSize
           /\ \A i \in 1..Len(filtered_leaves) :
                  /\ Cardinality({ p \in BatchPlaces(filtered_leaves) : p[1] + p[2] = i }) = 1
                  /\ \A p \in BatchPlaces(filtered_leaves) :
                         p[1] + p[2] = i =>
                             BatchLeaves(filtered_leaves, p[1])[p[2]] = filtered_leaves[i]
           /\ \A x \in Range(filtered_leaves) :
                  Cardinality({ p \in BatchPlaces(filtered_leaves) :
                                  BatchLeaves(filtered_leaves, p[1])[p[2]] = x })
                      = Cardinality({ i \in 1..Len(filtered_leaves) : filtered_leaves[i] = x })
    /\ (pc = "stage2_begin" /\ branch = "2B") =>
           /\ InFirstSeenOrder(selected_leaves_2a, all_selected_numbers)
           /\ Len(BranchCalls("2A")) = NumBatches(filtered_leaves)
    /\ pc = "merge" => InFirstSeenOrder(selected_leaves_2b, all_selected_numbers)

(* C22, as the code has it: batch splitting is a partition of the positions
   of the candidate list: the entry at every position is presented in
   exactly one batch under exactly one batch-local number (position minus
   batch start), batches and the entries inside them keep the input order,
   each batch has between 1 and BatchSize entries, and the branch result
   holds each selected leaf once, in first-seen order.  A leaf name that the
   list holds at several positions is presented at each of them. *)
C22_BatchesPartitionPositions == [] PositionsPartitioned

\* a branch of BatchSize + 1 candidates went through its two batches, the
\* second candidate was selected in the first batch and the last one in the
\* second, and the branch returned both in the order of their selection
C22_Witness ==
    /\ pc = "stage2_begin"
    /\ branch = "2B"
    /\ Len(filtered_leaves) = BatchSize + 1
    /\ Len(BranchCalls("2A")) = 2
    /\ Len(all_selected_numbers) >= 2
    /\ selected_leaves_2a = << filtered_leaves[2], filtered_leaves[BatchSize + 1] >>

(* C23: each Stage-2 batch contributes at most SelectionsPerBatch selected
   leaves whatever the model answers (the code's prompt asks for up to 15),
   so a branch with b batches returns at most SelectionsPerBatch * b leaves
   and the merged list presented to Stage 3 is bounded accordingly. *)
C23_BatchSelectionsBounded ==
    /\ Len(selected_leaves_2a) <= SelectionsPerBatch * Len(BranchCalls("2A"))
    /\ Len(selected_leaves_2b) <= SelectionsPerBatch * Len(BranchCalls("2B"))
    /\ Len(all_selected_leaves) <=
           SelectionsPerBatch * (Len(BranchCalls("2A")) + Len(BranchCalls("2B")))

-----------------------------------------------------------------------------
(* The completion calls of a request *)

\* the candidate lists of the two branches of a finished request
Candidates2A == FilteredLeaves(all_paths, leaf_markers, << selected_l1s[1] >>, << >>)

Candidates2B ==
    FilteredLeaves(all_paths, leaf_markers, << selected_l1s[2] >>, selected_leaves_2a)

\* the calls each stage of a request issues, as the request's data fix them
SummaryCallsDue == IF product_info = NoneValue THEN 0 ELSE 1

Stage1CallsDue == IF product_info # NoneValue /\ LeafPositions # {} THEN 1 ELSE 0

Stage2ACallsDue == IF selected_l1s = << >> THEN 0 ELSE NumBatches(Candidates2A)

Stage2BCallsDue == IF Len(selected_l1s) < 2 THEN 0 ELSE NumBatches(Candidates2B)

Stage3CallsDue == IF Len(all_selected_leaves) >= 2 THEN 1 ELSE 0

(* C24: every classification request issues between 3 and 5 completion
   calls in total (summary, Stage 1, Stage 2A, optional Stage 2B, optional
   Stage 3), for every taxonomy and every sequence of gateway answers. *)
C24_ThreeToFiveCalls ==
    pc = "done" => Len(calls) \in 3..5

\* every stage has issued the calls its data call for
CallsAsDue ==
    /\ (pc = "stage2_begin" /\ branch = "2B") =>
           /\ filtered_leaves # << >>
           /\ CallsOf("2A") = NumBatches(filtered_leaves)
    /\ pc = "merge" =>
           /\ Len(selected_l1s) < 2 => filtered_leaves = << >>
           /\ CallsOf("2B") = NumBatches(filtered_leaves)
    /\ pc = "done" =>
           /\ CallsOf("summary") = SummaryCallsDue
           /\ CallsOf("1") = Stage1CallsDue
           /\ CallsOf("3") = Stage3CallsDue
           /\ Len(calls) = SummaryCallsDue + Stage1CallsDue + CallsOf("2A")
                               + CallsOf("2B") + Stage3CallsDue
           /\ IF selected_l1s = << >>
              THEN CallsOf("2A") = 0 /\ CallsOf("2B") = 0 /\ Len(calls) <= 2
              ELSE /\ CallsOf("2A") >= 1
                   /\ CallsOf("2B") = NumBatches(filtered_leaves)
                   /\ Len(calls) >= 3

(* C24, as the code has it: a request issues one summary call unless
   product_info is not a text (no call at all), one Stage-1 call unless the
   index has no leaf path, one call per batch of the candidates of each
   Stage-2 branch that runs, and one Stage-3 call when the merged list has
   two entries or more; so a request that Stage 1 ends or that never reaches
   it issues 0, 1 or 2 calls, and every other request 3 calls at least and
   3 plus the number of its batches at most.  The calls of a branch are
   counted against the candidate list of the branch, which filtered_leaves
   holds from the entry of the branch to the entry of the next one. *)
C24_CallsPerRequest == [] CallsAsDue

\* a request whose first branch had two batches went on to Stage 3 and
\* succeeded: two of its calls belong to Stage 2A
C24_Witness ==
    /\ pc = "done"
    /\ outcome = "success"
    /\ CallsOf("2A") = 2
    /\ CallsOf("3") = 1
    /\ Len(calls) = 5

\* the calls k and n were issued for the same stage and the same batch
SameCall(k, n) == calls[k].stage = calls[n].stage /\ calls[k].batch = calls[n].batch

\* how often the call issued last has been issued
IssuesOfLatest ==
    Cardinality({ k \in 1..Len(calls) : SameCall(k, Len(calls)) })

(* C25: a transport-level failure of a completion call is retried a small
   bounded number of times before the stage applies its fallback (a stage
   that has gone on after a raised call has issued that call twice at
   least), while a parse or validation failure of a received answer is never
   retried (the same call is not issued again). *)
C25_TransportFailureRetried ==
    /\ (calls # << >> /\ last = Raise) => IssuesOfLatest >= 2
    /\ \A k, n \in 1..Len(calls) : (k < n /\ SameCall(k, n)) => calls[k].failed

-----------------------------------------------------------------------------
(* The product text of the prompts *)

\* every call of the stage was given the text
StageGiven(stage, text) ==
    \A k \in 1..Len(calls) : calls[k].stage = stage => calls[k].product = text

(* C26: Stages 1 and 2 are given the generated summary as their product
   text, whereas the single Stage-3 completion call is given the full
   original product description (not the summary). *)
C26_Stage3GivenFullDescription ==
    /\ StageGiven("1", product_summary)
    /\ StageGiven("2A", product_summary)
    /\ StageGiven("2B", product_summary)
    /\ StageGiven("3", product_info)
    /\ CallsOf("3") <= 1

\* the description went to the summary call and the summary to every
\* call after it
SummaryGivenToStages ==
    /\ StageGiven("summary", product_info)
    /\ StageGiven("1", product_summary)
    /\ StageGiven("2A", product_summary)
    /\ StageGiven("2B", product_summary)
    /\ StageGiven("3", product_summary)
    /\ CallsOf("3") <= 1

(* C26, as the code has it: the full original description is given to the
   summary call only; Stage 1, every batch of Stage 2 and the single
   Stage-3 call are all given the generated summary (the fallback summary
   when the summary call failed). *)
C26_AllStagesGivenSummary == [] SummaryGivenToStages

\* Stage 3 has been called for two candidates or more with a summary that
\* differs from the description the request was made with
C26_Witness ==
    /\ CallsOf("3") = 1
    /\ Len(all_selected_leaves) >= 2
    /\ product_summary # product_info
    /\ calls[Len(calls)].stage = "3"
    /\ calls[Len(calls)].product = product_summary
    /\ calls[1].product = product_info

-----------------------------------------------------------------------------
(* The leaf flags of the index *)

\* the stripped non-empty lines after the header line, in the order of the file
RECURSIVE PathLines(_)
PathLines(body) ==
    IF body = << >> THEN << >>
    ELSE IF Strip(Head(body)) = << >> THEN PathLines(Tail(body))
    ELSE << Strip(Head(body)) >> \o PathLines(Tail(body))

\* some later path of the index begins with path i and the separator
HasLaterChild(i) ==
    \E j \in (i + 1)..Len(all_paths) : StartsWith(all_paths[j], all_paths[i] \o SEP)

(* C27: for the path at position i of the file, the leaf flag is false if
   and only if some path at a later position j > i (any later line, not only
   line i+1, and regardless of blank lines in between) starts with path i's
   full text followed by " > "; the list of flags is aligned one-to-one with
   the list of non-empty path lines (the index as the constructor leaves
   it). *)
C27_LeafFlagIffNoLaterChild ==
    pc = "idle" =>
        /\ all_paths = PathLines(Body(lines))
        /\ Len(leaf_markers) = Len(all_paths)
        /\ \A i \in 1..Len(all_paths) : leaf_markers[i] <=> ~HasLaterChild(i)

\* a file of three lines after the header whose first path has its child
\* on the third line, behind a blank line or behind a path of another branch
C27_Witness ==
    /\ pc = "idle"
    /\ Len(Body(lines)) = 3
    /\ Len(all_paths) >= 2
    /\ ~leaf_markers[1]
    /\ ~StartsWith(Strip(Body(lines)[2]), all_paths[1] \o SEP)
    /\ StartsWith(Strip(Body(lines)[3]), all_paths[1] \o SEP)
    /\ leaf_markers[Len(all_paths)]

-----------------------------------------------------------------------------
(* The canonical L1 list *)

\* the first position among ps at which a path of the index has the first
\* segment c
FirstPathOf(c, ps) ==
    CHOOSE i \in ps : L1Of(all_paths[i]) = c /\ \A j \in ps : j < i => L1Of(all_paths[j]) # c

\* lst holds the first segments of the paths at the positions ps once each,
\* in the order in which they first occur at those positions
FirstSegmentsInOrder(lst, ps) ==
    /\ NoRepeat(lst)
    /\ Range(lst) = { L1Of(all_paths[i]) : i \in ps }
    /\ \A k, n \in 1..Len(lst) : k < n => FirstPathOf(lst[k], ps) < FirstPathOf(lst[n], ps)

\* the first two entries of the list, or all of a shorter one
FirstTwo(lst) == [k \in 1..(IF Len(lst) < 2 THEN Len(lst) ELSE 2) |-> lst[k]]

(* C28: the canonical L1 list used by Stage 1 is the list of distinct first
   segments of the taxonomy paths in file order (order of first appearance
   of each top-level category in the file), and when the Stage-1 completion
   call fails the stage returns exactly the first min(2, n) entries of that
   file-ordered list. *)
C28_L1ListInFileOrder ==
    /\ pc = "stage1" => FirstSegmentsInOrder(L1s, 1..Len(all_paths))
    /\ (JustAfterStage1 /\ last.kind # "text") => selected_l1s = FirstTwo(L1s)

\* the L1 list follows the first leaf of each category, and the fallback
\* is its head
L1ListInLeafOrder ==
    /\ pc = "stage1" =>
           /\ FirstSegmentsInOrder(L1s, LeafPositions)
           /\ Range(L1s) = { L1Of(all_paths[i]) : i \in 1..Len(all_paths) }
    /\ (JustAfterStage1 /\ last.kind # "text") => selected_l1s = FirstTwo(L1s)

(* C28, as the code has it: the canonical L1 list holds the distinct first
   segments of the leaf-marked paths, in the order in which each top-level
   category has its first leaf-marked path in the file; it names the same
   categories as the first segments of all paths, but a category whose first
   line is not a leaf can stand behind a category that appears later in the
   file.  When the Stage-1 call fails the stage returns exactly the first
   min(2, n) entries of this list. *)
C28_L1ListInLeafOrder == [] L1ListInLeafOrder

\* the Stage-1 call failed on an index whose first path is not a leaf and
\* whose first leaf belongs to another category: the fallback is headed by
\* the category that appears second in the file
C28_Witness ==
    /\ JustAfterStage1
    /\ last = Raise
    /\ Len(L1s) = 2
    /\ ~leaf_markers[1]
    /\ L1s[1] # L1Of(all_paths[1])
    /\ selected_l1s = L1s

-----------------------------------------------------------------------------
(* The course of a request *)

\* the steps of a request that has been started: each is taken once the
\* blocking call it waits for has returned or raised
RequestStep ==
    Summary \/ Stage1 \/ Stage2Begin \/ Stage2Batch \/ Merge \/ Stage3 \/ Resolve

\* taxonomy files for following requests to their end: no path line, one
\* category whose candidates fill more than one batch, two categories of
\* which one has two leaves, and three categories
LiveFiles ==
    { << HeaderLine >>,
      << HeaderLine, LineAB, LineABB, LineA >>,
      << HeaderLine, LineAB, LineABB, LineBA >>,
      << HeaderLine, LineA, LineBA, LineLowAB >> }

InitLive == Init /\ lines \in LiveFiles

\* the requests made on the files of LiveFiles, every started request
\* carried on: the gateway answers every call, by a response or by an
\* exception, and the code between two calls runs to the next call or to a
\* return
LiveSpec == InitLive /\ [][Next]_vars /\ WF_vars(RequestStep)

\* the place of a stage in the pipeline
StageRank(stage) ==
    CASE stage = "summary" -> 1
      [] stage = "1" -> 2
      [] stage = "2A" -> 3
      [] stage = "2B" -> 4
      [] stage = "3" -> 5

\* the calls issued so far follow the pipeline: stage after stage, the
\* batches of a branch one after the other from 1 on, one call at most for
\* the summary, Stage 1 and Stage 3
CallsInPipelineOrder ==
    /\ \A k, n \in 1..Len(calls) :
           k < n =>
               /\ StageRank(calls[k].stage) <= StageRank(calls[n].stage)
               /\ calls[k].stage = calls[n].stage => calls[k].batch < calls[n].batch
    /\ \A k \in 1..Len(calls) :
           calls[k].batch = IF calls[k].stage \in { "2A", "2B" }
                            THEN Cardinality({ n \in 1..k : calls[n].stage = calls[k].stage })
                            ELSE 0

\* a stage has issued a call only after the stage before it produced its
\* output
StagesWaitForOutput ==
    /\ CallsOf("1") > 0 => CallsOf("summary") = 1 /\ calls[2].product = product_summary
    /\ CallsOf("2A") > 0 => CallsOf("1") = 1 /\ selected_l1s # << >>
    /\ CallsOf("2B") > 0 =>
           /\ CallsOf("2A") = Stage2ACallsDue
           /\ Len(selected_l1s) = 2
           /\ Range(selected_leaves_2a) \subseteq Range(Candidates2A)
    /\ CallsOf("3") > 0 =>
           /\ CallsOf("2A") = Stage2ACallsDue
           /\ CallsOf("2B") = Stage2BCallsDue
           /\ all_selected_leaves = selected_leaves_2a \o selected_leaves_2b

\* a result exists exactly when the request has returned, and it is one of
\* the two kinds
OneTerminalResult ==
    /\ pc = "done" <=> outcome \in { "success", "failure", "exception" }
    /\ pc = "done" <=> result # NoResult
    /\ outcome \in { "failure", "exception" } => result = FailureResult
    /\ outcome = "success" => Len(result.paths) = 1 /\ result.idx = 0

(* C29: each classification request is a single linear sequence: completion
   calls are issued in the order summary, Stage 1, Stage-2A batches in
   ascending batch order, Stage-2B batches in ascending batch order, Stage
   3; no call of a later stage is issued before the previous stage has
   produced its output; after finitely many calls the request reaches
   exactly one terminal result (success or failure), after which it issues
   no further call. *)
C29_LinearSequence ==
    /\ [](CallsInPipelineOrder /\ StagesWaitForOutput /\ OneTerminalResult)
    /\ [][ /\ Len(calls') <= Len(calls) + 1
           /\ pc = "done" => (pc' = "summary" /\ calls' = << >>) ]_vars
    /\ (pc = "summary") ~> (pc = "done")

\* a request has returned a success after calls of all five stages
C29_Witness ==
    /\ pc = "done"
    /\ outcome = "success"
    /\ CallsOf("summary") = 1
    /\ CallsOf("1") = 1
    /\ CallsOf("2A") >= 1
    /\ CallsOf("2B") >= 1
    /\ CallsOf("3") = 1

-----------------------------------------------------------------------------
(* The category of the returned path *)

\* the L1 category of the branch that presented the chosen leaf: the first
\* selected L1 for a leaf of the 2A selections, the second for one of 2B
PresentingL1 ==
    IF best_match_idx + 1 <= Len(selected_leaves_2a)
    THEN selected_l1s[1]
    ELSE selected_l1s[2]

(* C30: whenever navigate_taxonomy returns a success path, the first segment
   of that path is one of the L1 categories selected in Stage 1 and the path
   is the one the chosen leaf was presented from in its Stage-2 branch (a
   leaf path of that branch's L1 ending in the chosen name), for every
   taxonomy, those in which the same leaf name occurs under two different L1
   categories included. *)
C30_PathFromSelectedL1 ==
    outcome = "success" =>
        /\ result.paths[1][1] \in Range(selected_l1s)
        /\ result.paths[1][1] = PresentingL1
        /\ result.paths[1][Len(result.paths[1])] = all_selected_leaves[best_match_idx + 1]

=============================================================================
